---- MODULE Spec2Model ----
(***************************************************************************)
(* A model of the sigmartc SFU server (internal/server): the per-connection *)
(* handler HandleWS with its deferred teardown, Room.Broadcast, the track   *)
(* fan-out bookkeeping (broadcastTrack, addExistingTracks,                  *)
(* subscribeToForwarder) and the per-peer negotiation driver               *)
(* (requestNegotiationWithICE, runNegotiation).                            *)
(*                                                                         *)
(* Every goroutine is a process whose position is a variable; a step is    *)
(* one critical section (one lock acquisition) or one write to a signaling *)
(* channel.  Several specifications share the variables and the actions:   *)
(*   SpecCap    the capacity check against a room that is nearly full      *)
(*   SpecSig    joins and leaves with every signaling frame recorded       *)
(***************************************************************************)
EXTENDS Integers, Sequences, FiniteSets, TLC

\* ---------------------------------------------------------------- constants
maxRoomPeers == 10
\* time.Hour in seconds, and the hours of 2*time.Hour in cleanup
HourSeconds == 3600
roomIdleHours == 2
iceRestartDelay == 5
maxNicknameRune == 12
iceRestartMin == 15
\* the zero time.Time of a peer that never restarted ICE
ZeroTime == -1

\* ------------------------------------------------------------------- bounds
\* SpecCap: peers already in the room at the start, and connections that
\* arrive afterwards.
CapResidents == 9
CapJoiners == 2
\* SpecSig: connections that join (and may leave) one room.
SigConns == 2
\* SpecTrack: connections, and the tracks (forwarders) they publish in all.
TrackConns == 2
MaxFwd == 2
\* runNegotiation goroutines a peer can have at once in the model.
MaxWorkers == 2
\* SpecNeg: calls of requestNegotiation / requestICERestart from outside the
\* worker, and frames the client sends.
MaxRequests == 3
MaxMsgs == 3
\* SpecIce: the last second of the clock, and 5 s checks pending at once.
MaxTime == 16
MaxTimers == 1
\* SpecReap: connections, and the last hour of the clock.
ReapConns == 2
MaxReapHours == 4
\* SpecBan: connection requests.
BanConns == 2
\* SpecErr: peers in the room and connections about to join.
ErrResidents == 1
ErrJoiners == 1
\* SpecCand: ICE candidates the client sends.
MaxCands == 3
\* SpecFwd: peers in the room and connections about to join, RTP packets the
\* forwarder reads, and stopWithError calls on it.
FwdResidents == 2
FwdJoiners == 1
MaxPackets == 2
MaxStopCalls == 2

VARIABLES
    pc,           \* [Conn -> position of the connection's HandleWS goroutine]
    roomPeers,    \* room.Peers (the ids registered in the room)
    frames,       \* [Conn -> sequence of JSON frames written to its channel]
    connOpen,     \* [Conn -> the server has not closed the websocket]
    clientGone,   \* [Conn -> ReadMessage failed: the channel is closed]
    rsPeers,      \* [Conn -> peersInfo snapshot taken by sendRoomState]
    joinTargets,  \* [Conn -> peers left to write in Broadcast(peer_join)]
    leaveTargets, \* [Conn -> peers left to write in Broadcast(peer_leave)]
    peerPC,       \* [Conn -> peer.PC: "nil", "open" or "closed"]
    peerDone,     \* [Conn -> peer.Done is closed]
    roomForwarders, \* room.Forwarders: [Conn -> forwarder id, 0 for no entry]
    fwd,          \* [forwarder id -> the TrackForwarder object]
    bt,           \* [forwarder id -> the broadcastTrack call that made it]
    hsub,         \* [Conn -> addExistingTracks in the connection's handler]
    outTracks,    \* [Conn -> senders with an entry in peer.OutTracks]
    trackAdds,    \* [Conn -> [Conn -> successful PC.AddTrack calls so far]]
    neg,          \* [Conn -> the peer's negotiation flags]
    wk,           \* [Conn -> [slot -> a runNegotiation goroutine]]
    now,          \* time.Now(), in seconds
    iceLog,       \* [Conn -> times of the accepted ICE restart requests]
    sdp,          \* [Conn -> signaling state and remote description of peer.PC]
    hmsg,         \* [Conn -> the inbound frame handleSignalingMessage is at]
    ice,          \* [Conn -> ICE connection state and the pending 5 s checks]
    used,         \* environment events so far: requests and client frames
    connIP,       \* [Conn -> clientIP(r) of the connection's request]
    bannedIPs,    \* rm.BannedIPs
    banFile,      \* the ban list file at rm.BanListPath
    rmRooms,      \* the room is in rm.Rooms
    lastEmptyTime, \* room.LastEmptyTime
    reaper,       \* the cleanup call of the reaper: position and locals
    reapLog,      \* what the room was like at each delete(rm.Rooms, uuid)
    fan,          \* [forwarder id -> the read-and-fan-out loop of Start()]
    delivered,    \* [forwarder id -> [Conn -> packets written to its track]]
    cand,         \* [Conn -> ICE candidates received, buffered and added]
    ping,         \* [Conn -> the ping goroutine: "none", "running", "ended"]
    wsErr,        \* [Conn -> a write on the websocket has failed]
    wsMutex,      \* [Conn -> the writer that holds peer.WsMutex, or "free"]
    wr,           \* [Conn -> [writer -> where it is in its write]]
    admin,        \* the last /admin request and the response it got
    registry,     \* rm.Rooms by room id, rm.Lock and the Room objects made
    call,         \* [caller -> a GetOrCreateRoom(uuid) call and its result]
    banStore,     \* rm.BannedIPs as a map, and the file at rm.BanListPath
    rx,           \* [Conn -> the last inbound frame and the frames ignored]
    req,          \* [Conn -> the room and name parameters of its request]
    ipq,          \* a request's addresses and the clientIP(r) derived from them
    resp,         \* the last HTTP request served and its response
    lk,           \* each lock: its writer, its readers, the writers waiting
    tk,           \* each locking task: the index of its next operation
    fstop,        \* the forwarder's done signal has been closed by Stop()
    members,      \* room.Peers of every Room object: pairs <<caller, object>>
    tick          \* [Conn -> a tick is waiting in pingTicker.C]

sigVars == <<pc, roomPeers, frames, connOpen, clientGone, rsPeers,
             joinTargets, leaveTargets, peerPC, peerDone>>
trackVars == <<roomForwarders, fwd, bt, hsub, outTracks, trackAdds>>
reqVars == <<neg, wk, iceLog>>
negVars == <<reqVars, now, sdp, hmsg, ice, used, cand>>

mgrVars == <<connIP, bannedIPs, banFile, rmRooms, lastEmptyTime, reaper, reapLog>>

fanVars == <<fan, delivered>>

wrVars == <<wsMutex, wr>>
regVars == <<registry, call>>
lockVars == <<lk, tk, fstop>>
sysVars == <<resp, lockVars, members, tick>>
auxVars == <<wrVars, admin, regVars, banStore, rx, req, ipq, sysVars>>
extVars == <<ping, wsErr, auxVars>>

vars == <<sigVars, trackVars, negVars, mgrVars, fanVars, extVars>>

Conns == DOMAIN pc

\* ------------------------------------------------------------------ frames
Frame(t, a, ps) == [type |-> t, about |-> a, peers |-> ps]
RoomStateFrame(p, ps) == Frame("room_state", p, ps)
PeerJoinFrame(p) == Frame("peer_join", p, {})
PeerLeaveFrame(p) == Frame("peer_leave", p, {})
RoomFullFrame == Frame("error:Room full", 0, {})
SetupFailedFrame == Frame("error:WebRTC setup failed", 0, {})

\* Peer.WriteJSON: the frame goes out on the peer's channel; a write on a
\* channel the server has closed, or whose write side has failed before,
\* fails and is only logged.
WriteJSON(fr, r, v) ==
    IF connOpen[r] /\ ~wsErr[r] THEN [fr EXCEPT ![r] = Append(@, v)] ELSE fr

\* ------------------------------------------------------- HandleWS: admission
RoomIsFull_OffByOne == Cardinality(roomPeers) > maxRoomPeers

\* the capacity test, evaluated with room.Lock held
RoomIsFull == Cardinality(roomPeers) >= maxRoomPeers

\* room.Lock.Lock(); capacity check; room.Peers[peerID] = peer; Unlock
HandleWSAdmit(p) ==
    /\ pc[p] = "start"
    /\ IF RoomIsFull
         THEN /\ pc' = [pc EXCEPT ![p] = "full"]
              /\ UNCHANGED roomPeers
         ELSE /\ roomPeers' = roomPeers \cup {p}
              /\ pc' = [pc EXCEPT ![p] = "registered"]
    /\ UNCHANGED <<trackVars, negVars, mgrVars, fanVars, extVars, frames, connOpen, clientGone, rsPeers, joinTargets,
                   leaveTargets, peerPC, peerDone>>

\* the rejected connection: error frame, conn.Close(), return (the teardown
\* block is not installed yet)
HandleWSRoomFull(p) ==
    /\ pc[p] = "full"
    /\ frames' = WriteJSON(frames, p, RoomFullFrame)
    /\ connOpen' = [connOpen EXCEPT ![p] = FALSE]
    /\ pc' = [pc EXCEPT ![p] = "rejected"]
    /\ UNCHANGED <<trackVars, negVars, mgrVars, fanVars, extVars, roomPeers, clientGone, rsPeers, joinTargets, leaveTargets,
                   peerPC, peerDone>>

\* ---------------------------------------------------------- sendRoomState
\* room.Lock.RLock(); peersInfo := every peer of room.Peers; RUnlock
SendRoomStateSnapshot(p) ==
    /\ pc[p] = "registered"
    /\ rsPeers' = [rsPeers EXCEPT ![p] = roomPeers]
    /\ pc' = [pc EXCEPT ![p] = "rs_write"]
    /\ UNCHANGED <<trackVars, negVars, mgrVars, fanVars, extVars, roomPeers, frames, connOpen, clientGone, joinTargets,
                   leaveTargets, peerPC, peerDone>>

\* peer.WriteJSON(room_state)
SendRoomStateWrite(p) ==
    /\ pc[p] = "rs_write"
    /\ frames' = WriteJSON(frames, p, RoomStateFrame(p, rsPeers[p]))
    /\ pc' = [pc EXCEPT ![p] = "pj_snap"]
    /\ UNCHANGED <<trackVars, negVars, mgrVars, fanVars, extVars, roomPeers, connOpen, clientGone, rsPeers, joinTargets,
                   leaveTargets, peerPC, peerDone>>

BroadcastSnapshot_AfterRoomState(sender) ==
    {r \in roomPeers \ {sender} : pc[r] \notin {"registered", "rs_write"}}

\* Room.Broadcast: the snapshot of the peers other than the sender
BroadcastSnapshot(sender) == roomPeers \ {sender}

\* room.Broadcast(peer.ID, peer_join): the snapshot under room.Lock.RLock
BroadcastJoinSnapshot(p) ==
    /\ pc[p] = "pj_snap"
    /\ joinTargets' = [joinTargets EXCEPT ![p] = BroadcastSnapshot(p)]
    /\ pc' = [pc EXCEPT ![p] = "pj_write"]
    /\ UNCHANGED <<trackVars, negVars, mgrVars, fanVars, extVars, roomPeers, frames, connOpen, clientGone, rsPeers,
                   leaveTargets, peerPC, peerDone>>

\* one iteration of Broadcast's loop: peer.WriteJSON(msg) to one peer of the
\* snapshot (the slice is filled in map order, so any peer may come next)
BroadcastJoinWrite(p, r) ==
    /\ r \in joinTargets[p]
    /\ frames' = WriteJSON(frames, r, PeerJoinFrame(p))
    /\ joinTargets' = [joinTargets EXCEPT ![p] = @ \ {r}]
    /\ UNCHANGED <<trackVars, negVars, mgrVars, fanVars, extVars, pc, roomPeers, connOpen, clientGone, rsPeers,
                   leaveTargets, peerPC, peerDone>>

BroadcastJoinReturns_Async(p) == TRUE

\* Broadcast returns to sendRoomState once its loop has written every peer
BroadcastJoinReturns(p) == joinTargets[p] = {}

\* sendRoomState returns; HandleWS goes on to setupWebRTC
SendRoomStateReturn(p) ==
    /\ pc[p] = "pj_write"
    /\ BroadcastJoinReturns(p)
    /\ pc' = [pc EXCEPT ![p] = "setup"]
    /\ UNCHANGED <<trackVars, negVars, mgrVars, fanVars, extVars, roomPeers, frames, connOpen, clientGone, rsPeers,
                   joinTargets, leaveTargets, peerPC, peerDone>>

\* ------------------------------------------------------------ setupWebRTC
\* NewPeerConnection succeeds: peer.PC = pc and the callbacks are installed
SetupWebRTC(p) ==
    /\ pc[p] = "setup"
    /\ peerPC' = [peerPC EXCEPT ![p] = "open"]
    /\ pc' = [pc EXCEPT ![p] = "addex"]
    /\ UNCHANGED <<trackVars, negVars, mgrVars, fanVars, extVars, roomPeers, frames, connOpen, clientGone, rsPeers,
                   joinTargets, leaveTargets, peerDone>>

\* NewPeerConnection fails: error frame, return (the teardown runs)
SetupWebRTCFails(p) ==
    /\ pc[p] = "setup"
    /\ frames' = WriteJSON(frames, p, SetupFailedFrame)
    /\ pc' = [pc EXCEPT ![p] = "td_done"]
    /\ UNCHANGED <<trackVars, negVars, mgrVars, fanVars, extVars, roomPeers, connOpen, clientGone, rsPeers, joinTargets,
                   leaveTargets, peerPC, peerDone>>

\* -------------------------------------------------------------- read loop
\* conn.ReadMessage() returns an error (the client closed its end, or the
\* read deadline passed): break, the deferred teardown runs
ReadLoopBreak(p) ==
    /\ pc[p] = "loop"
    /\ hmsg[p].step = "idle"
    /\ clientGone' = [clientGone EXCEPT ![p] = TRUE]
    /\ pc' = [pc EXCEPT ![p] = "td_done"]
    /\ UNCHANGED <<trackVars, negVars, mgrVars, fanVars, extVars, roomPeers, frames, connOpen, rsPeers,
                   joinTargets, leaveTargets, peerPC, peerDone>>

\* --------------------------------------------------------------- teardown
\* peer.SignalDone()
TeardownSignalDone(p) ==
    /\ pc[p] = "td_done"
    /\ peerDone' = [peerDone EXCEPT ![p] = TRUE]
    /\ pc' = [pc EXCEPT ![p] = "td_unsub"]
    /\ UNCHANGED <<trackVars, negVars, mgrVars, fanVars, extVars, roomPeers, frames, connOpen, clientGone, rsPeers,
                   joinTargets, leaveTargets, peerPC>>

\* room.Lock.Lock(); delete(room.Peers, peerID); Unlock
\* if len(room.Peers) == 0 { room.LastEmptyTime = time.Now() }
TeardownRemovePeer(p) ==
    /\ pc[p] = "td_remove"
    /\ roomPeers' = roomPeers \ {p}
    /\ lastEmptyTime' = IF roomPeers \ {p} = {} THEN now ELSE lastEmptyTime
    /\ pc' = [pc EXCEPT ![p] = "td_close"]
    /\ UNCHANGED <<trackVars, negVars, frames, connOpen, clientGone, rsPeers, joinTargets,
                   leaveTargets, peerPC, peerDone, connIP, fanVars, extVars, bannedIPs, banFile,
                   rmRooms, reaper, reapLog>>

\* conn.Close(); if peer.PC != nil { peer.PC.Close() }
TeardownClose(p) ==
    /\ pc[p] = "td_close"
    /\ connOpen' = [connOpen EXCEPT ![p] = FALSE]
    /\ peerPC' = [peerPC EXCEPT ![p] = IF @ = "nil" THEN "nil" ELSE "closed"]
    /\ pc' = [pc EXCEPT ![p] = "pl_snap"]
    /\ UNCHANGED <<trackVars, negVars, mgrVars, fanVars, extVars, roomPeers, frames, clientGone, rsPeers, joinTargets,
                   leaveTargets, peerDone>>

\* room.Broadcast(peerID, peer_leave): the snapshot
BroadcastLeaveSnapshot(p) ==
    /\ pc[p] = "pl_snap"
    /\ leaveTargets' = [leaveTargets EXCEPT ![p] = BroadcastSnapshot(p)]
    /\ pc' = [pc EXCEPT ![p] = "pl_write"]
    /\ UNCHANGED <<trackVars, negVars, mgrVars, fanVars, extVars, roomPeers, frames, connOpen, clientGone, rsPeers,
                   joinTargets, peerPC, peerDone>>

\* one iteration of the peer_leave Broadcast loop
BroadcastLeaveWrite(p, r) ==
    /\ r \in leaveTargets[p]
    /\ frames' = WriteJSON(frames, r, PeerLeaveFrame(p))
    /\ leaveTargets' = [leaveTargets EXCEPT ![p] = @ \ {r}]
    /\ UNCHANGED <<trackVars, negVars, mgrVars, fanVars, extVars, pc, roomPeers, connOpen, clientGone, rsPeers,
                   joinTargets, peerPC, peerDone>>

\* the handler has returned: the teardown ran to its end
Returned(p) == pc[p] = "pl_write" /\ leaveTargets[p] = {}

\* ------------------------------------------------- negotiation: the request
Slots == 1..MaxWorkers
FwdIds == 1..MaxFwd

\* go h.runNegotiation(peer): a new goroutine at the top of its loop
Spawn(w) ==
    IF \E i \in Slots : w[i].pc = "none"
      THEN LET i == CHOOSE i \in Slots :
                      w[i].pc = "none" /\ \A j \in Slots : w[j].pc = "none" => i <= j
           IN [w EXCEPT ![i] = [pc |-> "top", ice |-> FALSE]]
      ELSE w

IceRestartTooSoon_NoLimit(p) == FALSE

\* !peer.LastIceRestart.IsZero() && now.Sub(peer.LastIceRestart) < iceRestartMin
IceRestartTooSoon(p) ==
    /\ neg[p].lastIceRestart # ZeroTime
    /\ now - neg[p].lastIceRestart < iceRestartMin

WorkerInProgress_Ignored(p) == FALSE

\* if peer.NegotiationInProgress { return }
WorkerInProgress(p) == neg[p].inProgress

\* requestNegotiationWithICE: one critical section of peer.NegotiationMu,
\* then the goroutine is started
RequestNegotiationWithICE(p, iceRestart) ==
    IF iceRestart /\ IceRestartTooSoon(p)
      THEN UNCHANGED reqVars
      ELSE LET n1 == IF iceRestart
                       THEN [neg[p] EXCEPT !.lastIceRestart = now,
                                           !.iceRestartPending = TRUE]
                       ELSE neg[p]
               n2 == [n1 EXCEPT !.pending = TRUE]
           IN /\ iceLog' = IF iceRestart
                             THEN [iceLog EXCEPT ![p] = Append(@, now)]
                             ELSE iceLog
              /\ IF WorkerInProgress(p)
                   THEN /\ neg' = [neg EXCEPT ![p] = n2]
                        /\ UNCHANGED wk
                   ELSE /\ neg' = [neg EXCEPT ![p] = [n2 EXCEPT !.inProgress = TRUE]]
                        /\ wk' = [wk EXCEPT ![p] = Spawn(@)]

\* ------------------------------------------------------- TrackForwarder
\* TrackForwarder.Subscribe(receiverID, track): sets the receiver's entry
Subscribe(fw, f, r) == [fw EXCEPT ![f].subs = @ \cup {r}]

\* TrackForwarder.Unsubscribe(receiverID): removes the receiver's entry
Unsubscribe(fw, f, r) == [fw EXCEPT ![f].subs = @ \ {r}]

\* TrackForwarder.Stop(): closes the forwarder's done signal
Stop(fw, f) == [fw EXCEPT ![f].stopped = TRUE]

\* the copy of the subscriber map that Start() takes before it writes
Snapshot(subs) == subs

\* the forwarders installed in room.Forwarders
Installed == {roomForwarders[s] : s \in Conns} \ {0}

\* ------------------------------------------------- subscribeToForwarder
IsSender_Never(r, s) == FALSE

\* receiver.ID == senderID: the test that keeps a sender away from its own
\* forwarder, in addExistingTracks, broadcastTrack and subscribeToForwarder
IsSender(r, s) == r = s

TrackStoredUnderLock_NoRecheck(r, s) == FALSE

\* the second look at receiver.OutTracks[senderID], with the write lock held
TrackStoredUnderLock(r, s) == s \in outTracks[r]

\* One step of subscribeToForwarder(receiver r, senderID s, forwarder f) from
\* position step; next is the position after it ("return" when it is over).
\*   check         PC nil / self tests and the look-up under RLock
\*   lock          the write-locked section: re-check, NewTrackLocalStaticRTP,
\*                 PC.AddTrack (fails on a closed PeerConnection), store
\*   sub_existing  forwarder.Subscribe with the stored track
\*   sub_new       forwarder.Subscribe with the new track, requestNegotiation
SubscribeToForwarder(r, s, f, step, next) ==
    \/ /\ step = "check"
       /\ next = IF peerPC[r] = "nil" \/ IsSender(r, s) THEN "return"
                 ELSE IF s \in outTracks[r] THEN "sub_existing"
                 ELSE "lock"
       /\ UNCHANGED <<outTracks, trackAdds, fwd, reqVars>>
    \/ /\ step = "lock"
       /\ IF TrackStoredUnderLock(r, s)
            THEN /\ next = "sub_existing"
                 /\ UNCHANGED <<outTracks, trackAdds>>
            ELSE IF peerPC[r] = "open"
              THEN /\ next = "sub_new"
                   /\ outTracks' = [outTracks EXCEPT ![r] = @ \cup {s}]
                   /\ trackAdds' = [trackAdds EXCEPT ![r][s] = @ + 1]
              ELSE /\ next = "return"
                   /\ UNCHANGED <<outTracks, trackAdds>>
       /\ UNCHANGED <<fwd, reqVars>>
    \/ /\ step = "sub_existing"
       /\ next = "return"
       /\ fwd' = Subscribe(fwd, f, r)
       /\ UNCHANGED <<outTracks, trackAdds, reqVars>>
    \/ /\ step = "sub_new"
       /\ next = "return"
       /\ fwd' = Subscribe(fwd, f, r)
       /\ RequestNegotiationWithICE(r, FALSE)
       /\ UNCHANGED <<outTracks, trackAdds>>

SubSteps == {"check", "lock", "sub_existing", "sub_new", "return"}

\* ---------------------------------------------------- addExistingTracks
NoCall == [todo |-> {}, cur |-> 0, step |-> "none"]

ExistingForwarders_OnlyStarted(r) ==
    {f \in Installed : fwd[f].sender # r /\ fwd[f].state = "running"}

\* the entries of room.Forwarders that addExistingTracks keeps: every
\* forwarder but the receiver's own
ExistingForwarders(r) == {f \in Installed : ~IsSender(r, fwd[f].sender)}

\* the snapshot of room.Forwarders under ForwardersMu.RLock
AddExistingTracksSnapshot(r) ==
    /\ pc[r] = "addex"
    /\ hsub' = [hsub EXCEPT ![r] =
                  [todo |-> ExistingForwarders(r), cur |-> 0, step |-> "none"]]
    /\ pc' = [pc EXCEPT ![r] = "addex_sub"]
    /\ UNCHANGED <<roomPeers, frames, connOpen, clientGone, rsPeers,
                   joinTargets, leaveTargets, peerPC, peerDone>>
    /\ UNCHANGED <<roomForwarders, fwd, bt, outTracks, trackAdds, negVars, mgrVars, fanVars, extVars>>

\* the loop calls subscribeToForwarder for the next entry of the snapshot;
\* the call's first step is taken at once
AddExistingTracksCall(r, f) ==
    /\ pc[r] = "addex_sub"
    /\ hsub[r].cur = 0
    /\ f \in hsub[r].todo
    /\ \E next \in SubSteps :
         /\ SubscribeToForwarder(r, fwd[f].sender, f, "check", next)
         /\ hsub' = [hsub EXCEPT ![r] =
                       IF next = "return"
                         THEN [todo |-> @.todo \ {f}, cur |-> 0, step |-> "none"]
                         ELSE [todo |-> @.todo \ {f}, cur |-> f, step |-> next]]
    /\ UNCHANGED <<sigVars, roomForwarders, bt, now, mgrVars, fanVars, extVars, sdp, hmsg, ice, used, cand>>

\* the next step of the call in progress
AddExistingTracksStep(r) ==
    /\ pc[r] = "addex_sub"
    /\ hsub[r].cur # 0
    /\ LET f == hsub[r].cur
       IN \E next \in SubSteps :
            /\ SubscribeToForwarder(r, fwd[f].sender, f, hsub[r].step, next)
            /\ hsub' = [hsub EXCEPT ![r] =
                          IF next = "return"
                            THEN [@ EXCEPT !.cur = 0, !.step = "none"]
                            ELSE [@ EXCEPT !.step = next]]
    /\ UNCHANGED <<sigVars, roomForwarders, bt, now, mgrVars, fanVars, extVars, sdp, hmsg, ice, used, cand>>

\* addExistingTracks returns; HandleWS enters the signaling loop
AddExistingTracksReturn(r) ==
    /\ pc[r] = "addex_sub"
    /\ hsub[r].cur = 0
    /\ hsub[r].todo = {}
    /\ pc' = [pc EXCEPT ![r] = "loop"]
    /\ UNCHANGED <<roomPeers, frames, connOpen, clientGone, rsPeers,
                   joinTargets, leaveTargets, peerPC, peerDone>>
    /\ UNCHANGED <<trackVars, negVars, mgrVars, fanVars, extVars>>

\* ------------------------------------------- teardown: the forwarder part
\* ForwardersMu.RLock(); forwarder.Unsubscribe(peerID) for every forwarder of
\* room.Forwarders; RUnlock
TeardownUnsubscribe(p) ==
    /\ pc[p] = "td_unsub"
    /\ fwd' = [f \in FwdIds |->
                 IF f \in Installed THEN Unsubscribe(fwd, f, p)[f] ELSE fwd[f]]
    /\ pc' = [pc EXCEPT ![p] = "td_fwd"]
    /\ UNCHANGED <<roomPeers, frames, connOpen, clientGone, rsPeers,
                   joinTargets, leaveTargets, peerPC, peerDone>>
    /\ UNCHANGED <<roomForwarders, bt, hsub, outTracks, trackAdds, negVars, mgrVars, fanVars, extVars>>

\* ForwardersMu.Lock(); the peer's own forwarder, if room.Forwarders has one,
\* is stopped and deleted; Unlock
TeardownStopForwarder(p) ==
    /\ pc[p] = "td_fwd"
    /\ IF roomForwarders[p] # 0
         THEN /\ fwd' = Stop(fwd, roomForwarders[p])
              /\ roomForwarders' = [roomForwarders EXCEPT ![p] = 0]
         ELSE UNCHANGED <<fwd, roomForwarders>>
    /\ pc' = [pc EXCEPT ![p] = "td_remove"]
    /\ UNCHANGED <<roomPeers, frames, connOpen, clientGone, rsPeers,
                   joinTargets, leaveTargets, peerPC, peerDone>>
    /\ UNCHANGED <<bt, hsub, outTracks, trackAdds, negVars, mgrVars, fanVars, extVars>>

\* --------------------------------------------------------- broadcastTrack
NoTask == [pc |-> "none", old |-> 0, todo |-> {}, cur |-> 0, step |-> "none"]
NoForwarder == [sender |-> 0, subs |-> {}, stopped |-> FALSE, state |-> "none"]

\* pc.OnTrack fires for an audio track of sender s: broadcastTrack starts on
\* its own goroutine and makes forwarder f (NewTrackForwarder).  A track comes
\* with a remote description, which the handler applies in its read loop; the
\* goroutine's first step may come any time later.
OnTrack(s, f) ==
    /\ pc[s] = "loop"
    /\ peerPC[s] = "open"
    /\ fwd[f].sender = 0
    /\ \A g \in FwdIds : fwd[g].sender = 0 => f <= g
    /\ fwd' = [fwd EXCEPT ![f] = [sender |-> s, subs |-> {},
                                  stopped |-> FALSE, state |-> "new"]]
    /\ bt' = [bt EXCEPT ![f] = [NoTask EXCEPT !.pc = "install"]]
    /\ UNCHANGED <<sigVars, roomForwarders, hsub, outTracks, trackAdds, negVars, mgrVars, fanVars, extVars>>

\* ForwardersMu.Lock(); oldForwarder = room.Forwarders[sender.ID];
\* room.Forwarders[sender.ID] = forwarder; Unlock
BroadcastTrackInstall(f) ==
    /\ bt[f].pc = "install"
    /\ LET s == fwd[f].sender
       IN /\ roomForwarders' = [roomForwarders EXCEPT ![s] = f]
          /\ bt' = [bt EXCEPT ![f].old = roomForwarders[s],
                              ![f].pc = IF roomForwarders[s] # 0
                                          THEN "stop_old" ELSE "snapshot"]
    /\ UNCHANGED <<sigVars, fwd, hsub, outTracks, trackAdds, negVars, mgrVars, fanVars, extVars>>

StopOld_Skipped(fw, f) == fw

\* if oldForwarder != nil && oldForwarder != forwarder { oldForwarder.Stop() }
StopOld(fw, f) == Stop(fw, f)

BroadcastTrackStopOld(f) ==
    /\ bt[f].pc = "stop_old"
    /\ fwd' = StopOld(fwd, bt[f].old)
    /\ bt' = [bt EXCEPT ![f].pc = "snapshot"]
    /\ UNCHANGED <<sigVars, roomForwarders, hsub, outTracks, trackAdds, negVars, mgrVars, fanVars, extVars>>

\* room.Lock.RLock(); receivers := every peer of room.Peers but the sender
BroadcastTrackSnapshot(f) ==
    /\ bt[f].pc = "snapshot"
    /\ bt' = [bt EXCEPT ![f].todo = {r \in roomPeers : ~IsSender(r, fwd[f].sender)},
                        ![f].pc = "subscribe"]
    /\ UNCHANGED <<sigVars, roomForwarders, fwd, hsub, outTracks, trackAdds,
                   negVars, mgrVars, fanVars, extVars>>

\* the loop calls subscribeToForwarder for the next receiver of the snapshot;
\* the call's first step is taken at once
BroadcastTrackCall(f, r) ==
    /\ bt[f].pc = "subscribe"
    /\ bt[f].cur = 0
    /\ r \in bt[f].todo
    /\ \E next \in SubSteps :
         /\ SubscribeToForwarder(r, fwd[f].sender, f, "check", next)
         /\ bt' = [bt EXCEPT ![f].todo = @ \ {r},
                             ![f].cur = IF next = "return" THEN 0 ELSE r,
                             ![f].step = IF next = "return" THEN "none" ELSE next]
    /\ UNCHANGED <<sigVars, roomForwarders, hsub, now, mgrVars, fanVars, extVars, sdp, hmsg, ice, used, cand>>

\* the next step of the call in progress
BroadcastTrackStep(f) ==
    /\ bt[f].pc = "subscribe"
    /\ bt[f].cur # 0
    /\ \E next \in SubSteps :
         /\ SubscribeToForwarder(bt[f].cur, fwd[f].sender, f, bt[f].step, next)
         /\ bt' = [bt EXCEPT ![f].cur = IF next = "return" THEN 0 ELSE @,
                             ![f].step = IF next = "return" THEN "none" ELSE next]
    /\ UNCHANGED <<sigVars, roomForwarders, hsub, now, mgrVars, fanVars, extVars, sdp, hmsg, ice, used, cand>>

\* go forwarder.Start(): the read-and-fan-out goroutine begins
BroadcastTrackStart(f) ==
    /\ bt[f].pc = "subscribe"
    /\ bt[f].cur = 0
    /\ bt[f].todo = {}
    /\ fwd' = [fwd EXCEPT ![f].state = "running"]
    /\ bt' = [bt EXCEPT ![f].pc = "done"]
    /\ UNCHANGED <<sigVars, roomForwarders, hsub, outTracks, trackAdds, negVars, mgrVars, fanVars, extVars>>

OnStop_Never(rf, f, s) == rf

OnStop_AnyEntry(rf, f, s) == [rf EXCEPT ![s] = 0]

\* the forwarder's onStop callback: room.Forwarders loses the sender's entry
\* if that entry is this forwarder
OnStop(rf, f, s) == IF rf[s] = f THEN [rf EXCEPT ![s] = 0] ELSE rf

NoFan == [read |-> 0, cur |-> 0, todo |-> {}, stopCalls |-> 0, onStopCalls |-> 0]

FirstStop_Always(fa) == TRUE

\* stopWithError runs its body once: on the first call only
FirstStop(fa) == fa.stopCalls = 0

\* TrackForwarder.stopWithError(err): the first call closes the done signal
\* and invokes onStop, every later call does nothing
StopWithError(f) ==
    /\ fan' = [fan EXCEPT ![f].stopCalls = @ + 1,
                          ![f].onStopCalls = IF FirstStop(fan[f]) THEN @ + 1 ELSE @]
    /\ roomForwarders' = IF FirstStop(fan[f])
                           THEN OnStop(roomForwarders, f, fwd[f].sender)
                           ELSE roomForwarders

\* forwarder.Start() ends between two packets, on its done signal or on an
\* upstream read error, and calls stopWithError
ForwarderExit(f) ==
    /\ fwd[f].state = "running"
    /\ fan[f].todo = {}
    /\ fwd' = [fwd EXCEPT ![f].state = "ended", ![f].stopped = TRUE]
    /\ StopWithError(f)
    /\ UNCHANGED <<sigVars, bt, hsub, outTracks, trackAdds, negVars, mgrVars, extVars, delivered>>

\* a stopWithError call from outside the loop, on a forwarder that runs or
\* has ended
StopWithErrorCall(f) ==
    /\ fwd[f].state \in {"running", "ended"}
    /\ fan[f].stopCalls < MaxStopCalls
    /\ fwd' = Stop(fwd, f)
    /\ StopWithError(f)
    /\ UNCHANGED <<sigVars, bt, hsub, outTracks, trackAdds, negVars, mgrVars, extVars, delivered>>

\* the loop reads the next RTP packet from the sender's track and snapshots
\* the subscriber map
ForwarderRead(f) ==
    /\ fwd[f].state = "running"
    /\ fan[f].todo = {}
    /\ fan[f].read < MaxPackets
    /\ fan' = [fan EXCEPT ![f].read = @ + 1, ![f].cur = fan[f].read + 1,
                          ![f].todo = Snapshot(fwd[f].subs)]
    /\ UNCHANGED <<sigVars, trackVars, negVars, mgrVars, extVars, delivered>>

WriteResults == {"ok", "closed", "other"}

Payload_Stale(fa) == 1

\* the payload written to a subscriber: the packet the loop has just read
Payload(fa) == fa.cur

RemoveOnError_Any(res) == res # "ok"

\* recordWriteError: the subscriber is removed when the error is of the
\* closed class (io.ErrClosedPipe, webrtc.ErrConnectionClosed)
RemoveOnError(res) == res = "closed"

\* the loop writes the packet to the next subscriber of its snapshot; the
\* write succeeds, or fails with an error of the closed class (on a closed
\* endpoint) or with another error
ForwarderWrite(f, r, res) ==
    /\ r \in fan[f].todo
    /\ res = "closed" => peerPC[r] = "closed"
    /\ fan' = [fan EXCEPT ![f].todo = @ \ {r}]
    /\ delivered' = IF res = "ok"
                      THEN [delivered EXCEPT ![f][r] = Append(@, Payload(fan[f]))]
                      ELSE delivered
    /\ fwd' = IF RemoveOnError(res) THEN Unsubscribe(fwd, f, r) ELSE fwd
    /\ UNCHANGED <<sigVars, roomForwarders, bt, hsub, outTracks, trackAdds, negVars,
                   mgrVars, extVars>>

\* the fan-out writes a packet to subscriber r and the write reports that the
\* subscriber's endpoint is closed: recordWriteError removes the subscriber
ForwarderWriteClosed(f, r) ==
    /\ fwd[f].state = "running"
    /\ r \in fwd[f].subs
    /\ peerPC[r] = "closed"
    /\ fwd' = Unsubscribe(fwd, f, r)
    /\ UNCHANGED <<sigVars, roomForwarders, bt, hsub, outTracks, trackAdds, negVars, mgrVars, fanVars, extVars>>

\* --------------------------------------------------------- runNegotiation
\* A worker is at one of: "top" (the select on peer.Done), "read" (the locked
\* read of the flags), "pcchk" (the tests of peer.PC), "clear" (the locked
\* pending = false, makingOffer = true), "offer" (about to call CreateOffer),
\* "creating" (inside CreateOffer / SetLocalDescription), "after_ok" and
\* "after_err" (the locked bookkeeping), "send" (the offer frame), "exit" (the
\* deferred inProgress = false).
DoneObserved_Never(p) == FALSE

\* case <-peer.Done: the receive succeeds once the channel is closed
DoneObserved(p) == peerDone[p]

\* select { case <-peer.Done: return; default: }
WorkerTop(p, i) ==
    /\ wk[p][i].pc = "top"
    /\ wk' = [wk EXCEPT ![p][i].pc = IF DoneObserved(p) THEN "exit" ELSE "read"]
    /\ UNCHANGED <<sigVars, trackVars, neg, iceLog, now, mgrVars, fanVars, extVars, sdp, hmsg, ice, used, cand>>

\* pending := peer.NegotiationPending; iceRestart := peer.IceRestartPending;
\* if !pending { return }
WorkerReadPending(p, i) ==
    /\ wk[p][i].pc = "read"
    /\ wk' = [wk EXCEPT ![p][i] = [pc |-> IF neg[p].pending THEN "pcchk" ELSE "exit",
                                   ice |-> neg[p].iceRestartPending]]
    /\ UNCHANGED <<sigVars, trackVars, neg, iceLog, now, mgrVars, fanVars, extVars, sdp, hmsg, ice, used, cand>>

\* pc == nil or closed: clear the flags and return; not stable or no remote
\* description: sleep 50 ms and continue
WorkerCheckPC(p, i) ==
    /\ wk[p][i].pc = "pcchk"
    /\ IF peerPC[p] # "open"
         THEN /\ neg' = [neg EXCEPT ![p].pending = FALSE,
                                    ![p].iceRestartPending = FALSE]
              /\ wk' = [wk EXCEPT ![p][i].pc = "exit"]
         ELSE /\ wk' = [wk EXCEPT ![p][i].pc =
                          IF sdp[p].sig # "stable" \/ ~sdp[p].remote
                            THEN "top" ELSE "clear"]
              /\ UNCHANGED neg
    /\ UNCHANGED <<sigVars, trackVars, iceLog, now, mgrVars, fanVars, extVars, sdp, hmsg, ice, used, cand>>

\* peer.NegotiationPending = false; peer.MakingOffer = true
WorkerClearPending(p, i) ==
    /\ wk[p][i].pc = "clear"
    /\ neg' = [neg EXCEPT ![p].pending = FALSE, ![p].makingOffer = TRUE]
    /\ wk' = [wk EXCEPT ![p][i].pc = "offer"]
    /\ UNCHANGED <<sigVars, trackVars, iceLog, now, mgrVars, fanVars, extVars, sdp, hmsg, ice, used, cand>>

\* pc.CreateOffer(opts) is entered
WorkerCreateOffer(p, i) ==
    /\ wk[p][i].pc = "offer"
    /\ wk' = [wk EXCEPT ![p][i].pc = "creating"]
    /\ UNCHANGED <<sigVars, trackVars, neg, iceLog, now, mgrVars, fanVars, extVars, sdp, hmsg, ice, used, cand>>

\* CreateOffer returns and SetLocalDescription(offer) is applied: it fails on
\* a closed connection and in have-remote-offer
WorkerSetLocalDescription(p, i) ==
    /\ wk[p][i].pc = "creating"
    /\ IF peerPC[p] = "open" /\ sdp[p].sig # "have-remote-offer"
         THEN /\ sdp' = [sdp EXCEPT ![p].sig = "have-local-offer"]
              /\ wk' = [wk EXCEPT ![p][i].pc = "after_ok"]
         ELSE /\ wk' = [wk EXCEPT ![p][i].pc = "after_err"]
              /\ UNCHANGED sdp
    /\ UNCHANGED <<sigVars, trackVars, neg, iceLog, now, mgrVars, fanVars, extVars, hmsg, ice, used, cand>>

\* peer.MakingOffer = false; on an error pending = true, sleep 100 ms and
\* continue; otherwise iceRestartPending = false
WorkerAfterOffer(p, i) ==
    /\ wk[p][i].pc \in {"after_ok", "after_err"}
    /\ IF wk[p][i].pc = "after_err"
         THEN /\ neg' = [neg EXCEPT ![p].makingOffer = FALSE, ![p].pending = TRUE]
              /\ wk' = [wk EXCEPT ![p][i].pc = "top"]
         ELSE /\ neg' = [neg EXCEPT ![p].makingOffer = FALSE,
                                    ![p].iceRestartPending = FALSE]
              /\ wk' = [wk EXCEPT ![p][i].pc = "send"]
    /\ UNCHANGED <<sigVars, trackVars, iceLog, now, mgrVars, fanVars, extVars, sdp, hmsg, ice, used, cand>>

\* peer.WriteJSON(offer), and back to the top of the loop
WorkerSendOffer(p, i) ==
    /\ wk[p][i].pc = "send"
    /\ frames' = WriteJSON(frames, p, Frame("offer", p, {}))
    /\ wk' = [wk EXCEPT ![p][i].pc = "top"]
    /\ UNCHANGED <<trackVars, neg, iceLog, now, mgrVars, fanVars, extVars, sdp, hmsg, ice, used, cand, pc, roomPeers,
                   connOpen, clientGone, rsPeers, joinTargets, leaveTargets,
                   peerPC, peerDone>>

\* the deferred function: peer.NegotiationInProgress = false
WorkerExit(p, i) ==
    /\ wk[p][i].pc = "exit"
    /\ neg' = [neg EXCEPT ![p].inProgress = FALSE]
    /\ wk' = [wk EXCEPT ![p][i] = [pc |-> "none", ice |-> FALSE]]
    /\ UNCHANGED <<sigVars, trackVars, iceLog, now, mgrVars, fanVars, extVars, sdp, hmsg, ice, used, cand>>

\* requestNegotiation(peer), as subscribeToForwarder calls it on its last line
\* (it has returned before that for a receiver without a PeerConnection)
RequestNegotiation(p) ==
    /\ used.req < MaxRequests
    /\ peerPC[p] # "nil"
    /\ RequestNegotiationWithICE(p, FALSE)
    /\ used' = [used EXCEPT !.req = @ + 1]
    /\ UNCHANGED <<sigVars, trackVars, now, mgrVars, fanVars, extVars, sdp, hmsg, ice, cand>>

\* requestICERestart(peer), as the connection's state callbacks call it
RequestICERestart(p) ==
    /\ used.req < MaxRequests
    /\ peerPC[p] # "nil"
    /\ RequestNegotiationWithICE(p, TRUE)
    /\ used' = [used EXCEPT !.req = @ + 1]
    /\ UNCHANGED <<sigVars, trackVars, now, mgrVars, fanVars, extVars, sdp, hmsg, ice, cand>>

\* ------------------------------------------------- handleSignalingMessage
NoMsg == [step |-> "idle", state |-> "stable", collision |-> FALSE]

\* case "offer", up to the test for a pending remote offer
RecvOfferDo(p) ==
    /\ pc[p] = "loop"
    /\ peerPC[p] # "nil"
    /\ hmsg[p].step = "idle"
    /\ used.msg < MaxMsgs
    /\ LET state == sdp[p].sig
           offerCollision == neg[p].makingOffer \/ state = "have-local-offer"
       IN /\ neg' = IF offerCollision
                      THEN [neg EXCEPT ![p].pending = TRUE, ![p].makingOffer = FALSE]
                      ELSE neg
          /\ hmsg' = [hmsg EXCEPT ![p] =
                        IF state = "have-remote-offer"
                          THEN NoMsg
                          ELSE [step |-> IF state = "have-local-offer"
                                           THEN "rollback" ELSE "setremote",
                                state |-> state, collision |-> offerCollision]]
    /\ used' = [used EXCEPT !.msg = @ + 1]
    /\ UNCHANGED <<sigVars, trackVars, wk, iceLog, now, mgrVars, fanVars, sdp, ice, cand>>

RecvOffer(p) == RecvOfferDo(p) /\ UNCHANGED extVars

\* SetLocalDescription(rollback): back to stable, or an error and return
HandleOfferRollback(p) ==
    /\ hmsg[p].step = "rollback"
    /\ IF sdp[p].sig = "have-local-offer"
         THEN /\ sdp' = [sdp EXCEPT ![p].sig = "stable"]
              /\ hmsg' = [hmsg EXCEPT ![p].step = "setremote"]
         ELSE /\ hmsg' = [hmsg EXCEPT ![p] = NoMsg]
              /\ UNCHANGED sdp
    /\ UNCHANGED <<sigVars, trackVars, reqVars, now, mgrVars, fanVars, extVars, ice, used, cand>>

FlushPendingCandidates_KeepsList(c) == [c EXCEPT !.added = @ \o c.buf]

\* flushPendingCandidates: the list is taken and set to nil under
\* PendingCandidatesMu, then AddICECandidate is called for each entry in order
FlushPendingCandidates(c) == [c EXCEPT !.added = @ \o c.buf, !.buf = <<>>]

\* SetRemoteDescription(offer): have-remote-offer and the pending candidates
\* are flushed, or an error and return
HandleOfferSetRemote(p) ==
    /\ hmsg[p].step = "setremote"
    /\ IF sdp[p].sig = "stable"
         THEN /\ sdp' = [sdp EXCEPT ![p] = [sig |-> "have-remote-offer", remote |-> TRUE]]
              /\ cand' = [cand EXCEPT ![p] = FlushPendingCandidates(@)]
              /\ hmsg' = [hmsg EXCEPT ![p].step = "answer"]
         ELSE /\ hmsg' = [hmsg EXCEPT ![p] = NoMsg]
              /\ UNCHANGED <<sdp, cand>>
    /\ UNCHANGED <<sigVars, trackVars, reqVars, now, mgrVars, fanVars, extVars, ice, used>>

\* CreateAnswer, SetLocalDescription(answer), WriteJSON(answer)
HandleOfferAnswer(p) ==
    /\ hmsg[p].step = "answer"
    /\ IF sdp[p].sig = "have-remote-offer"
         THEN /\ sdp' = [sdp EXCEPT ![p].sig = "stable"]
              /\ frames' = WriteJSON(frames, p, Frame("answer", p, {}))
              /\ hmsg' = [hmsg EXCEPT ![p] =
                            IF hmsg[p].collision
                              THEN [hmsg[p] EXCEPT !.step = "request"] ELSE NoMsg]
         ELSE /\ hmsg' = [hmsg EXCEPT ![p] = NoMsg]
              /\ UNCHANGED <<sdp, cand, frames>>
    /\ UNCHANGED <<trackVars, reqVars, now, mgrVars, fanVars, extVars, ice, used, cand, pc, roomPeers, connOpen,
                   clientGone, rsPeers, joinTargets, leaveTargets, peerPC, peerDone>>

\* if offerCollision { h.requestNegotiation(peer) }
HandleOfferRequest(p) ==
    /\ hmsg[p].step = "request"
    /\ RequestNegotiationWithICE(p, FALSE)
    /\ hmsg' = [hmsg EXCEPT ![p] = NoMsg]
    /\ UNCHANGED <<sigVars, trackVars, now, mgrVars, fanVars, extVars, sdp, ice, used, cand>>

\* case "answer": SetRemoteDescription(answer), valid in have-local-offer,
\* and then the pending candidates are flushed
RecvAnswerDo(p) ==
    /\ pc[p] = "loop"
    /\ peerPC[p] # "nil"
    /\ hmsg[p].step = "idle"
    /\ used.msg < MaxMsgs
    /\ IF sdp[p].sig = "have-local-offer"
         THEN /\ sdp' = [sdp EXCEPT ![p] = [sig |-> "stable", remote |-> TRUE]]
              /\ cand' = [cand EXCEPT ![p] = FlushPendingCandidates(@)]
         ELSE UNCHANGED <<sdp, cand>>
    /\ used' = [used EXCEPT !.msg = @ + 1]
    /\ UNCHANGED <<sigVars, trackVars, reqVars, now, mgrVars, fanVars, hmsg, ice>>

RecvAnswer(p) == RecvAnswerDo(p) /\ UNCHANGED extVars

\* case "candidate": with no remote description the candidate is appended to
\* peer.PendingCandidates, otherwise AddICECandidate is called at once.
\* Candidates are numbered in the order of their arrival.
RecvCandidateDo(p) ==
    /\ pc[p] = "loop"
    /\ peerPC[p] # "nil"
    /\ hmsg[p].step = "idle"
    /\ cand[p].recv < MaxCands
    /\ LET c == cand[p].recv + 1
       IN cand' = [cand EXCEPT ![p] =
                     IF ~sdp[p].remote
                       THEN [@ EXCEPT !.recv = c, !.buf = Append(@, c)]
                       ELSE [@ EXCEPT !.recv = c, !.added = Append(@, c)]]
    /\ UNCHANGED <<sigVars, trackVars, reqVars, now, mgrVars, fanVars, sdp, hmsg, ice, used>>

RecvCandidate(p) == RecvCandidateDo(p) /\ UNCHANGED extVars

\* ---------------------------------------------------------- the read loop
\* inbound frames: bytes that are not a JSON object, an object without a
\* string "type", and objects with a known or an unknown type
MaxDropped == 2
TextFrame == [object |-> FALSE, hasType |-> FALSE, type |-> ""]
UntypedFrame == [object |-> TRUE, hasType |-> FALSE, type |-> ""]
TypedFrame(t) == [object |-> TRUE, hasType |-> TRUE, type |-> t]
InFrames ==
    {TextFrame, UntypedFrame} \cup
    {TypedFrame(t) : t \in {"offer", "answer", "candidate", "bye"}}

NoRx == [last |-> TextFrame, dropped |-> 0]

Dispatch_DefaultOffer(f) ==
    IF ~f.object THEN "none"
    ELSE IF ~f.hasType THEN "none"
    ELSE IF f.type \in {"answer", "candidate"} THEN f.type ELSE "offer"

\* which case of handleSignalingMessage a frame runs: json.Unmarshal fails
\* (continue), msg["type"] is not a string (return), or switch t, which
\* has no default
Dispatch(f) ==
    IF ~f.object THEN "none"
    ELSE IF ~f.hasType THEN "none"
    ELSE IF f.type \in {"offer", "answer", "candidate"} THEN f.type ELSE "none"

\* one turn of the signaling loop: ReadMessage returns frame f, which is
\* parsed and handled
ReadFrame(p, f) ==
    /\ pc[p] = "loop"
    /\ hmsg[p].step = "idle"
    /\ \/ /\ Dispatch(f) = "offer"
          /\ RecvOfferDo(p)
          /\ rx' = [rx EXCEPT ![p].last = f]
       \/ /\ Dispatch(f) = "answer"
          /\ RecvAnswerDo(p)
          /\ rx' = [rx EXCEPT ![p].last = f]
       \/ /\ Dispatch(f) = "candidate"
          /\ RecvCandidateDo(p)
          /\ rx' = [rx EXCEPT ![p].last = f]
       \/ /\ Dispatch(f) = "none"
          /\ rx[p].dropped < MaxDropped
          /\ rx' = [rx EXCEPT ![p] = [last |-> f, dropped |-> @.dropped + 1]]
          /\ UNCHANGED <<sigVars, trackVars, negVars, mgrVars, fanVars>>
    /\ UNCHANGED <<ping, wsErr, wrVars, admin, regVars, banStore, req, ipq, sysVars>>

\* ------------------------------------------------- the ICE state callbacks
\* OnICEConnectionStateChange: failed requests an ICE restart at once,
\* disconnected starts the goroutine that waits iceRestartDelay
IceConnectionStateChange(p, st) ==
    /\ peerPC[p] = "open"
    /\ st # ice[p].state
    /\ st = "disconnected" => Cardinality(ice[p].timers \cup ice[p].woken) < MaxTimers
    /\ ice' = [ice EXCEPT ![p] = [state |-> st,
                                  timers |-> IF st = "disconnected"
                                               THEN @.timers \cup {now + iceRestartDelay}
                                               ELSE @.timers,
                                  woken |-> @.woken,
                                  delayed |-> @.delayed /\ st # "failed"]]
    /\ IF st = "failed"
         THEN RequestNegotiationWithICE(p, TRUE)
         ELSE UNCHANGED reqVars
    /\ UNCHANGED <<sigVars, trackVars, now, mgrVars, fanVars, extVars, sdp, hmsg, used, cand>>

\* OnConnectionStateChange(failed)
ConnectionStateFailed(p) ==
    /\ peerPC[p] = "open"
    /\ RequestNegotiationWithICE(p, TRUE)
    /\ ice' = [ice EXCEPT ![p].delayed = FALSE]
    /\ UNCHANGED <<sigVars, trackVars, now, mgrVars, fanVars, extVars, sdp, hmsg, used, cand>>

SelectDone_Ignored(p) == FALSE

\* case <-peer.Done of the goroutine's select: the close of the channel wakes
\* the goroutine waiting in the select
SelectDone(p) == peerDone[p]

\* the goroutine started on disconnected waits in its select: it is woken by
\* whichever comes first, the close of peer.Done (it returns) or the timer
\* of iceRestartDelay
DisconnectedWake(p, t) ==
    /\ t \in ice[p].timers
    /\ IF SelectDone(p)
         THEN ice' = [ice EXCEPT ![p].timers = @ \ {t}]
         ELSE /\ now >= t
              /\ ice' = [ice EXCEPT ![p].timers = @ \ {t}, ![p].woken = @ \cup {t}]
    /\ UNCHANGED <<sigVars, trackVars, reqVars, now, mgrVars, fanVars, extVars, sdp, hmsg, used, cand>>

\* after the timer: if peer.PC != nil and its ICE state is disconnected,
\* requestICERestart (a closed PeerConnection reports closed)
DisconnectedCheck(p, t) ==
    /\ t \in ice[p].woken
    /\ IF peerPC[p] = "open" /\ ice[p].state = "disconnected"
         THEN /\ RequestNegotiationWithICE(p, TRUE)
              /\ ice' = [ice EXCEPT ![p].woken = @ \ {t}, ![p].delayed = TRUE]
         ELSE /\ UNCHANGED reqVars
              /\ ice' = [ice EXCEPT ![p].woken = @ \ {t}, ![p].delayed = FALSE]
    /\ UNCHANGED <<sigVars, trackVars, now, mgrVars, fanVars, extVars, sdp, hmsg, used, cand>>

\* a second passes
Tick ==
    /\ now < MaxTime
    /\ now' = now + 1
    /\ UNCHANGED <<sigVars, trackVars, reqVars, sdp, hmsg, ice, used, cand, mgrVars, fanVars, extVars>>

\* ------------------------------------------------------------ RoomManager
\* now.Sub(lastEmpty) > 2*time.Hour
RoomIdle == roomIdleHours * HourSeconds

NoCleanup == [pc |-> "idle", now |-> 0, peerCount |-> 0, lastEmpty |-> 0]

IPs == {"ip1", "ip2"}

\* ----------------------------------------------------------------- clientIP
\* addresses: loopback, private, link-local and two public ones
Addrs == {"127.0.0.1", "10.0.0.1", "169.254.0.1", "8.8.8.8", "203.0.113.5"}
NilIP == "nil"

\* a piece of text from a header or from r.RemoteAddr: empty, junk, or a
\* spelling of an address, canonical or not (as "::ffff:8.8.8.8" is for
\* 8.8.8.8), with or without white space around it
Text(kind, addr, canon, pad) == [kind |-> kind, addr |-> addr, canon |-> canon, pad |-> pad]
EmptyText == Text("empty", "", TRUE, FALSE)
JunkText == Text("junk", "", TRUE, FALSE)

\* strings.TrimSpace on such a text
TrimText(t) == [t EXCEPT !.pad = FALSE]

\* t == ""
IsEmptyText(t) == t.kind = "empty" /\ ~t.pad

\* net.ParseIP: any spelling of an address, and no white space
ParseIP(t) == IF t.kind = "ip" /\ ~t.pad THEN t.addr ELSE NilIP

\* ip.String(): the canonical spelling
IPString(a) == Text("ip", a, TRUE, FALSE)

\* r.RemoteAddr is host:port, or a bare host; a result of clientIP has the
\* same shape, with no port
Addr(host, port) == [host |-> host, port |-> port]

\* parseRemoteIP: the host of host:port, or the whole string if there is no
\* port to split off
ParseRemoteIP(remoteAddr) == ParseIP(remoteAddr.host)

IsTrustedProxy_Parsed(ip) == ip # NilIP

\* isTrustedProxy: ip.IsLoopback() || ip.IsPrivate()
IsTrustedProxy(ip) ==
    /\ ip # NilIP
    /\ ip \in {"127.0.0.1", "10.0.0.1"}

\* the loop over strings.Split(xff, ","): the first part that, trimmed, is
\* not empty and parses
RECURSIVE FirstValid(_)
FirstValid(parts) ==
    IF parts = <<>> THEN NilIP
    ELSE LET candidate == TrimText(Head(parts))
         IN IF IsEmptyText(candidate) THEN FirstValid(Tail(parts))
            ELSE IF ParseIP(candidate) # NilIP THEN ParseIP(candidate)
            ELSE FirstValid(Tail(parts))

\* strings.TrimSpace(r.Header.Get("X-Forwarded-For")) == "": no header, or
\* one part of white space only
XffBlank(xff) == xff = <<>> \/ (Len(xff) = 1 /\ IsEmptyText(TrimText(xff[1])))

\* clientIP(r)
ClientIP(r) ==
    LET remoteIP == ParseRemoteIP(r.remote)
        trusted == remoteIP # NilIP /\ IsTrustedProxy(remoteIP)
        realIP == TrimText(r.xRealIP)
    IN IF trusted /\ ~IsEmptyText(realIP) /\ ParseIP(realIP) # NilIP
         THEN Addr(IPString(ParseIP(realIP)), FALSE)
       ELSE IF trusted /\ ~XffBlank(r.xff) /\ FirstValid(r.xff) # NilIP
         THEN Addr(IPString(FirstValid(r.xff)), FALSE)
       ELSE IF remoteIP # NilIP
         THEN Addr(IPString(remoteIP), FALSE)
       ELSE r.remote

\* the texts headers carry, the X-Forwarded-For lists made of them and the
\* remote addresses
MaxXff == 2
HeaderTexts ==
    {EmptyText, Text("empty", "", TRUE, TRUE), JunkText,
     Text("ip", "203.0.113.5", TRUE, FALSE), Text("ip", "8.8.8.8", FALSE, TRUE),
     Text("ip", "10.0.0.1", TRUE, TRUE)}
XffLists == UNION {[1..n -> HeaderTexts] : n \in 0..MaxXff}
RemoteAddrs ==
    {Addr(IPString(a), port) : a \in Addrs, port \in BOOLEAN} \cup
    {Addr(Text("ip", "8.8.8.8", FALSE, FALSE), TRUE), Addr(JunkText, FALSE)}
IPRequests == [remote : RemoteAddrs, xRealIP : HeaderTexts, xff : XffLists]

NoIpq == [r |-> [remote |-> Addr(JunkText, FALSE), xRealIP |-> EmptyText, xff |-> <<>>],
          out |-> Addr(EmptyText, FALSE), done |-> FALSE]

\* ip := clientIP(r)
DeriveClientIP ==
    /\ ~ipq.done
    /\ ipq' = [ipq EXCEPT !.out = ClientIP(ipq.r), !.done = TRUE]
    /\ UNCHANGED <<sigVars, trackVars, negVars, mgrVars, fanVars, ping, wsErr, wrVars, admin,
                   regVars, banStore, rx, req, sysVars>>

\* ------------------------------------------------------- request checks
\* a query parameter: optional white space around runes that are not white
\* space, each encoded in width bytes
Str(pad, runes, width) == [pad |-> pad, runes |-> runes, width |-> width]

\* strings.TrimSpace
TrimSpace(s) == [s EXCEPT !.pad = FALSE]

\* s == "": no byte at all
IsEmpty(s) == ~s.pad /\ s.runes = 0

\* len(s), in bytes; the padding is one space on each side
ByteLen(s) == s.runes * s.width + (IF s.pad THEN 2 ELSE 0)

RuneCountInString_Bytes(s) == ByteLen(s)

\* utf8.RuneCountInString
RuneCountInString(s) == s.runes + (IF s.pad THEN 2 ELSE 0)

\* normalizeNickname(raw): the trimmed name and whether err is nil
NormalizeNickname(raw) ==
    LET name == TrimSpace(raw)
    IN IF IsEmpty(name) THEN [name |-> name, ok |-> FALSE]
       ELSE IF RuneCountInString(name) > maxNicknameRune
              THEN [name |-> name, ok |-> FALSE]
              ELSE [name |-> name, ok |-> TRUE]

\* the room and name parameters that requests carry
RoomParams == {Str(FALSE, 0, 1), Str(TRUE, 0, 1), Str(TRUE, 1, 1)}
NameParams ==
    {Str(FALSE, 0, 1), Str(TRUE, 0, 1)} \cup
    {Str(pad, maxNicknameRune + d, w) : pad \in BOOLEAN, d \in {0, 1}, w \in {1, 2}}
Requests == [room : RoomParams, name : NameParams]
GoodRequest == [room |-> Str(FALSE, 1, 1), name |-> Str(FALSE, 1, 1)]

\* the places of HandleWS before upgrader.Upgrade has succeeded
BeforeUpgrade == {"arrived", "badrequest", "request", "forbidden"}

\* HandleWS up to the 400: roomUUID == "" || err != nil
HandleWSCheckInput(p) ==
    /\ pc[p] = "arrived"
    /\ LET roomUUID == TrimSpace(req[p].room)
           nickname == NormalizeNickname(req[p].name)
       IN pc' = [pc EXCEPT ![p] =
                   IF IsEmpty(roomUUID) \/ ~nickname.ok THEN "badrequest" ELSE "request"]
    /\ UNCHANGED <<trackVars, negVars, mgrVars, fanVars, extVars, roomPeers, frames, connOpen,
                   clientGone, rsPeers, joinTargets, leaveTargets, peerPC, peerDone>>

IsBanned_ReadsFile(ip) == ip \in banFile

\* RoomManager.IsBanned(ip)
IsBanned(ip) == ip \in bannedIPs

\* HandleWS up to the upgrade: a banned client ip gets 403 and no connection
HandleWSCheckBan(p) ==
    /\ pc[p] = "request"
    /\ reaper.pc = "idle"
    /\ IF IsBanned(connIP[p])
         THEN /\ pc' = [pc EXCEPT ![p] = "forbidden"]
              /\ UNCHANGED <<connOpen, ping>>
         ELSE /\ pc' = [pc EXCEPT ![p] = "upgraded"]
              /\ connOpen' = [connOpen EXCEPT ![p] = TRUE]
              /\ ping' = [ping EXCEPT ![p] = "running"]
    /\ UNCHANGED <<trackVars, negVars, mgrVars, fanVars, auxVars, wsErr, roomPeers, frames, clientGone,
                   rsPeers, joinTargets, leaveTargets, peerPC, peerDone>>

ConnClose_LeavesOpen(open, p) == open

\* _ = conn.Close(): the websocket is closed, its ReadMessage returns
ConnClose(open, p) == [open EXCEPT ![p] = FALSE]

\* the ping goroutine: WriteControl(ping) fails, so peer.SignalDone() and
\* conn.Close(); the goroutine runs from the upgrade until peer.Done
PingFails(p) ==
    /\ pc[p] \notin BeforeUpgrade
    /\ ~peerDone[p]
    /\ peerDone' = [peerDone EXCEPT ![p] = TRUE]
    /\ connOpen' = ConnClose(connOpen, p)
    /\ ping' = [ping EXCEPT ![p] = "ended"]
    /\ UNCHANGED <<trackVars, negVars, mgrVars, fanVars, auxVars, wsErr, pc, roomPeers, frames, clientGone,
                   rsPeers, joinTargets, leaveTargets, peerPC>>

\* HandleWS has returned, so its deferred pingTicker.Stop() has run: after
\* the Room full rejection, or at the end of the teardown
TickerStopped(p) == pc[p] = "rejected" \/ Returned(p)

\* pingTicker puts a tick in its channel, which holds one; a stopped ticker
\* sends no more ticks (Stop does not close the channel)
TickerFires(p) ==
    /\ pc[p] \notin BeforeUpgrade
    /\ ~TickerStopped(p)
    /\ ~tick[p]
    /\ tick' = [tick EXCEPT ![p] = TRUE]
    /\ UNCHANGED <<sigVars, trackVars, negVars, mgrVars, fanVars, ping, wsErr, wrVars, admin, regVars, banStore,
                   rx, req, ipq, resp, lockVars, members>>

\* the ping goroutine's select takes case <-pingTicker.C: WriteControl(ping)
\* under WsMutex; if it fails (the connection is closed, or a write failed
\* before) peer.SignalDone(), conn.Close() and return
PingTakesTick(p) ==
    /\ ping[p] = "running"
    /\ tick[p]
    /\ tick' = [tick EXCEPT ![p] = FALSE]
    /\ IF ~connOpen[p] \/ wsErr[p]
         THEN /\ peerDone' = [peerDone EXCEPT ![p] = TRUE]
              /\ connOpen' = ConnClose(connOpen, p)
              /\ ping' = [ping EXCEPT ![p] = "ended"]
         ELSE UNCHANGED <<peerDone, connOpen, ping>>
    /\ UNCHANGED <<trackVars, negVars, mgrVars, fanVars, wsErr, wrVars, admin, regVars, banStore,
                   rx, req, ipq, resp, lockVars, members, pc, roomPeers, frames, clientGone,
                   rsPeers, joinTargets, leaveTargets, peerPC>>

\* the ping goroutine's select takes case <-peer.Done: return
PingSeesDone(p) ==
    /\ ping[p] = "running"
    /\ peerDone[p]
    /\ ping' = [ping EXCEPT ![p] = "ended"]
    /\ UNCHANGED <<sigVars, trackVars, negVars, mgrVars, fanVars, auxVars, wsErr>>

\* a write on the connection fails for the first time (the network, not the
\* server, is the cause); the websocket library keeps the error and fails
\* every later write, the ping included
WriteFails(p) ==
    /\ ping[p] = "running"
    /\ connOpen[p]
    /\ ~wsErr[p]
    /\ wsErr' = [wsErr EXCEPT ![p] = TRUE]
    /\ UNCHANGED <<sigVars, trackVars, negVars, mgrVars, fanVars, auxVars, ping>>

\* the handler has a pointer to the Room object
HoldsRoom(q) ==
    /\ pc[q] \notin BeforeUpgrade \cup {"upgraded", "rejected"}
    /\ ~Returned(q)

\* RoomManager.GetOrCreateRoom(uuid), under rm.Lock: the registered room, or a
\* new empty one with LastEmptyTime = time.Now().  The model has one Room
\* object per uuid at a time: a new one is made once no handler refers to the
\* one that was removed.
GetOrCreateRoom(p) ==
    /\ pc[p] = "upgraded"
    /\ reaper.pc = "idle"
    /\ IF rmRooms
         THEN UNCHANGED <<rmRooms, lastEmptyTime>>
         ELSE /\ roomPeers = {}
              /\ \A q \in Conns : ~HoldsRoom(q)
              /\ rmRooms' = TRUE
              /\ lastEmptyTime' = now
    /\ pc' = [pc EXCEPT ![p] = "start"]
    /\ UNCHANGED <<trackVars, negVars, roomPeers, frames, connOpen, clientGone,
                   rsPeers, joinTargets, leaveTargets, peerPC, peerDone, connIP, fanVars, extVars,
                   bannedIPs, banFile, reaper, reapLog>>

\* RoomManager.BanIP(ip), under rm.Lock: the ip is in rm.BannedIPs whether or
\* not saveBanList could write the file
BanIPCall(ip) ==
    /\ reaper.pc = "idle"
    /\ bannedIPs' = bannedIPs \cup {ip}
    /\ \E saved \in BOOLEAN :
          banFile' = IF saved THEN bannedIPs \cup {ip} ELSE banFile

\* a ban, whoever asks for it
BanIP(ip) ==
    /\ BanIPCall(ip)
    /\ UNCHANGED <<sigVars, trackVars, negVars, connIP, fanVars, extVars, rmRooms, lastEmptyTime,
                   reaper, reapLog>>

\* h.RoomManager.AdminKey, and the key parameters a request may carry
AdminKey == "secret"
Keys == {"", "secret", "wrong"}
Methods == {"GET", "POST"}
Actions == {"stats", "logs", "ban", ""}

\* no /admin request was made
NoAdmin == [key |-> "", method |-> "", action |-> "", ip |-> "",
            status |-> 0, body |-> ""]

Authorized_NotEmpty(key) == key # ""

\* the negation of: key == "" || key != h.RoomManager.AdminKey
Authorized(key) == ~(key = "" \/ key # AdminKey)

\* what HandleAdmin writes for an authorized request; nothing is written,
\* and the status stays 200, for action=ban without an ip
AdminBody(action, ip) ==
    CASE action = "stats" -> "stats"
      [] action = "logs" -> "logs"
      [] action = "ban" -> IF ip # "" THEN "Banned" ELSE ""
      [] OTHER -> "ui"

\* HandleAdmin: an /admin request with its query parameters key, action and
\* ip; r.Method is recorded, the handler never reads it
HandleAdminDo(key, method, action, ip) ==
    /\ IF ~Authorized(key)
         THEN /\ admin' = [key |-> key, method |-> method, action |-> action,
                           ip |-> ip, status |-> 401, body |-> "Unauthorized"]
              /\ UNCHANGED <<bannedIPs, banFile>>
         ELSE /\ admin' = [key |-> key, method |-> method, action |-> action,
                           ip |-> ip, status |-> 200, body |-> AdminBody(action, ip)]
              /\ IF action = "ban" /\ ip # ""
                   THEN BanIPCall(ip)
                   ELSE UNCHANGED <<bannedIPs, banFile>>
    /\ UNCHANGED <<sigVars, trackVars, negVars, connIP, fanVars, ping, wsErr, wrVars, regVars, banStore, rx, req, ipq,
                   rmRooms, lastEmptyTime, reaper, reapLog>>

HandleAdmin(key, method, action, ip) ==
    HandleAdminDo(key, method, action, ip) /\ UNCHANGED sysVars

\* cleanup, for the one room: rm.Lock.Lock(); now := time.Now();
\* room.Lock.RLock(); peerCount, lastEmpty are read; RUnlock
CleanupRead ==
    /\ reaper.pc = "idle"
    /\ rmRooms
    /\ reaper' = [pc |-> "decide", now |-> now,
                  peerCount |-> Cardinality(roomPeers), lastEmpty |-> lastEmptyTime]
    /\ UNCHANGED <<sigVars, trackVars, negVars, connIP, fanVars, extVars, bannedIPs, banFile, rmRooms,
                   lastEmptyTime, reapLog>>

\* peerCount == 0 && now.Sub(lastEmpty) > 2*time.Hour
RoomExpired(r) == r.peerCount = 0 /\ r.now - r.lastEmpty > RoomIdle

\* if expired { delete(rm.Rooms, uuid) }; rm.Lock.Unlock()
CleanupDecide ==
    /\ reaper.pc = "decide"
    /\ IF RoomExpired(reaper)
         THEN /\ rmRooms' = FALSE
              /\ reapLog' = Append(reapLog, [peers |-> roomPeers,
                                             idle |-> now - lastEmptyTime])
         ELSE UNCHANGED <<rmRooms, reapLog>>
    /\ reaper' = NoCleanup
    /\ UNCHANGED <<sigVars, trackVars, negVars, connIP, fanVars, extVars, bannedIPs, banFile,
                   lastEmptyTime>>

\* an hour passes
TickHour ==
    /\ now < MaxReapHours * HourSeconds
    /\ now' = now + HourSeconds
    /\ UNCHANGED <<sigVars, trackVars, reqVars, sdp, hmsg, ice, used, cand, mgrVars, fanVars, extVars>>

\* ------------------------------------------------------------ initial states
NoNeg == [pending |-> FALSE, inProgress |-> FALSE, makingOffer |-> FALSE,
          iceRestartPending |-> FALSE, lastIceRestart |-> ZeroTime]
NoWorker == [pc |-> "none", ice |-> FALSE]

\* no forwarder, no outbound track, no broadcastTrack call
TrackInit(C) ==
    /\ roomForwarders = [c \in C |-> 0]
    /\ fwd = [f \in FwdIds |-> NoForwarder]
    /\ bt = [f \in FwdIds |-> NoTask]
    /\ hsub = [c \in C |-> NoCall]
    /\ outTracks = [c \in C |-> {}]
    /\ trackAdds = [c \in C |-> [d \in C |-> 0]]

NoCands == [recv |-> 0, buf |-> <<>>, added |-> <<>>]

\* no negotiation requested yet, no candidate received, the clock at 0
NegInit(C) ==
    /\ neg = [c \in C |-> NoNeg]
    /\ wk = [c \in C |-> [i \in Slots |-> NoWorker]]
    /\ now = 0
    /\ iceLog = [c \in C |-> <<>>]
    /\ sdp = [c \in C |-> [sig |-> "stable", remote |-> FALSE]]
    /\ cand = [c \in C |-> NoCands]
    /\ hmsg = [c \in C |-> NoMsg]
    /\ ice = [c \in C |-> [state |-> "new", timers |-> {}, woken |-> {}, delayed |-> FALSE]]
    /\ used = [req |-> 0, msg |-> 0]

\* connections whose handlers are all at the same place before the capacity
\* check, and an empty room
ConnInit(C, at) ==
    /\ pc = [c \in C |-> at]
    /\ roomPeers = {}
    /\ frames = [c \in C |-> <<>>]
    /\ connOpen = [c \in C |-> at \notin BeforeUpgrade]
    /\ clientGone = [c \in C |-> FALSE]
    /\ rsPeers = [c \in C |-> {}]
    /\ joinTargets = [c \in C |-> {}]
    /\ leaveTargets = [c \in C |-> {}]
    /\ peerPC = [c \in C |-> "nil"]
    /\ peerDone = [c \in C |-> FALSE]

\* no forwarder has read a packet
FanInit(C) ==
    /\ fan = [f \in FwdIds |-> NoFan]
    /\ delivered = [f \in FwdIds |-> [c \in C |-> <<>>]]

\* ------------------------------------------------------- the ban list file
\* the ips the admin bans, in the order json.Marshal sorts map keys
BanKeys == <<"ip1", "ip2", "ip3">>

\* a Go map[string]bool with no entry
EmptyMap == [k \in {} |-> TRUE]

\* the ips a map[string]bool bans: rm.BannedIPs[ip] is true
Banned(m) == {k \in DOMAIN m : m[k]}

\* json.Marshal of a map[string]bool: the object's members, one per key, in
\* sorted key order
Marshal(m) ==
    LET ks == SelectSeq(BanKeys, LAMBDA k : k \in DOMAIN m)
    IN [i \in 1..Len(ks) |-> <<ks[i], m[ks[i]]>>]

\* json.Unmarshal of an object into a map: member by member, each sets its
\* key, the entries the map had are kept
RECURSIVE Unmarshal(_, _)
Unmarshal(data, m) ==
    IF data = <<>> THEN m
    ELSE LET k == Head(data)[1]
             v == Head(data)[2]
         IN Unmarshal(Tail(data),
                      [j \in DOMAIN m \cup {k} |-> IF j = k THEN v ELSE m[j]])

\* a file: absent, or its bytes, which either parse as a JSON object (data
\* holds the members) or do not
NoFile == [exists |-> FALSE, json |-> FALSE, data |-> <<>>]
JsonFile(data) == [exists |-> TRUE, json |-> TRUE, data |-> data]
BrokenFile == [exists |-> TRUE, json |-> FALSE, data |-> <<>>]

\* loadBanList on a manager whose BannedIPs is m: the map afterwards and
\* what was logged
LoadBanList(file, m) ==
    IF ~file.exists THEN [map |-> m, log |-> "none"]
    ELSE IF ~file.json THEN [map |-> m, log |-> "parse error"]
    ELSE [map |-> Unmarshal(file.data, m), log |-> "none"]

SavedData_OnlyNew(m, ip) == Marshal([k \in {ip} |-> TRUE])

\* saveBanList: json.Marshal(rm.BannedIPs), the whole map
SavedData(m, ip) == Marshal(m)

\* NewRoomManager: an empty map, then loadBanList
NewBannedIPs(file) == LoadBanList(file, EmptyMap).map

\* the ban list files somebody else may leave at the path
OtherFiles ==
    {NoFile, BrokenFile, JsonFile(<<>>), JsonFile(<<<<"ip1", FALSE>>>>),
     JsonFile(<<<<"ip2", TRUE>>, <<"ip3", FALSE>>>>),
     JsonFile(<<<<"ip1", TRUE>>, <<"ip1", FALSE>>>>)}

\* the manager was started with no file at the path; allSaved: the file is
\* as the manager found it or as its last os.WriteFile, all of which have
\* succeeded, left it
BanStoreInit ==
    banStore = [mem |-> NewBannedIPs(NoFile), file |-> NoFile, allSaved |-> TRUE]

\* BanIP(ip): rm.BannedIPs[ip] = true, then saveBanList; a failed
\* os.WriteFile leaves the file as it was or cut short
BanIPSave(ip) ==
    /\ LET m == [k \in DOMAIN banStore.mem \cup {ip} |->
                    IF k = ip THEN TRUE ELSE banStore.mem[k]]
       IN \E out \in {"written", "untouched", "cut"} :
             banStore' =
               [mem |-> m,
                file |-> CASE out = "written" -> JsonFile(SavedData(m, ip))
                           [] out = "untouched" -> banStore.file
                           [] out = "cut" -> BrokenFile,
                allSaved |-> banStore.allSaved /\ out = "written"]
    /\ UNCHANGED <<sigVars, trackVars, negVars, mgrVars, fanVars, ping, wsErr, wrVars, admin,
                   regVars, rx, req, ipq, sysVars>>

\* the server is started again: a new manager loads the file
Restart ==
    /\ banStore' = [mem |-> NewBannedIPs(banStore.file), file |-> banStore.file,
                    allSaved |-> TRUE]
    /\ UNCHANGED <<sigVars, trackVars, negVars, mgrVars, fanVars, ping, wsErr, wrVars, admin,
                   regVars, rx, req, ipq, sysVars>>

\* somebody removes the file or puts another one in its place
ReplaceFile(f) ==
    /\ banStore.file # f
    /\ banStore' = [banStore EXCEPT !.file = f, !.allSaved = FALSE]
    /\ UNCHANGED <<sigVars, trackVars, negVars, mgrVars, fanVars, ping, wsErr, wrVars, admin,
                   regVars, rx, req, ipq, sysVars>>

\* ---------------------------------------------------------- rm.Rooms
\* the room ids requested, the goroutines that call GetOrCreateRoom and the
\* number of calls they make in all
RoomIds == {"a", "b"}
Callers == 1..2
MaxGocCalls == 3

NoCall_Goc == [pc |-> "idle", id |-> "", ret |-> 0, during |-> {}]

\* Room objects are numbered in the order they are made; lastEmpty[i] is
\* the LastEmptyTime of object i, 0 in rooms is a missing map entry
RegInit ==
    /\ registry = [rooms |-> [id \in RoomIds |-> 0], lock |-> 0,
                   lastEmpty |-> <<>>, deleted |-> {}, calls |-> 0]
    /\ call = [c \in Callers |-> NoCall_Goc]

RmLockFree_Always(r) == TRUE

\* rm.Lock.Lock() returns only when nobody holds rm.Lock
RmLockFree(r) == r.lock = 0

\* a goroutine calls rm.GetOrCreateRoom(id); during: the calls of others that
\* are under way at that moment
GocCall(c, id) ==
    /\ call[c].pc \in {"idle", "done"}
    /\ registry.calls < MaxGocCalls
    /\ registry' = [registry EXCEPT !.calls = @ + 1]
    /\ call' = [call EXCEPT ![c] =
                  [pc |-> "lock", id |-> id, ret |-> 0,
                   during |-> {d \in Callers \ {c} : call[d].pc \notin {"idle", "done"}}]]
    /\ UNCHANGED <<sigVars, trackVars, negVars, mgrVars, fanVars, ping, wsErr, wrVars, admin, banStore, rx, req, ipq, sysVars>>

\* rm.Lock.Lock()
GocLock(c) ==
    /\ call[c].pc = "lock"
    /\ RmLockFree(registry)
    /\ registry' = [registry EXCEPT !.lock = c]
    /\ call' = [call EXCEPT ![c].pc = "lookup"]
    /\ UNCHANGED <<sigVars, trackVars, negVars, mgrVars, fanVars, ping, wsErr, wrVars, admin, banStore, rx, req, ipq, sysVars>>

\* room, exists := rm.Rooms[uuid]; if exists { return room }
GocLookup(c) ==
    /\ call[c].pc = "lookup"
    /\ call' = [call EXCEPT ![c] =
                  IF registry.rooms[call[c].id] # 0
                    THEN [@ EXCEPT !.pc = "return", !.ret = registry.rooms[call[c].id]]
                    ELSE [@ EXCEPT !.pc = "create"]]
    /\ UNCHANGED <<sigVars, trackVars, negVars, mgrVars, fanVars, ping, wsErr, wrVars, admin, banStore, rx, req, ipq, sysVars,
                   registry>>

\* room = &Room{..., LastEmptyTime: time.Now()}; rm.Rooms[uuid] = room
GocCreate(c) ==
    /\ call[c].pc = "create"
    /\ LET room == Len(registry.lastEmpty) + 1
       IN /\ registry' = [registry EXCEPT !.rooms[call[c].id] = room,
                                          !.lastEmpty = Append(@, now)]
          /\ call' = [call EXCEPT ![c].pc = "return", ![c].ret = room]
    /\ UNCHANGED <<sigVars, trackVars, negVars, mgrVars, fanVars, ping, wsErr, wrVars, admin, banStore, rx, req, ipq, sysVars>>

\* the deferred rm.Lock.Unlock(), and the return of the room
GocReturn(c) ==
    /\ call[c].pc = "return"
    /\ registry' = [registry EXCEPT !.lock = 0]
    /\ call' = [call EXCEPT ![c].pc = "done"]
    /\ UNCHANGED <<sigVars, trackVars, negVars, mgrVars, fanVars, ping, wsErr, wrVars, admin, banStore, rx, req, ipq, sysVars>>

\* len(room.Peers) of a Room object
PeerCount(room) == Cardinality({m \in members : m[2] = room})

\* cleanup(), the whole call under rm.Lock: every room without a peer whose
\* LastEmptyTime is more than two hours back is deleted
RegCleanup ==
    /\ registry.lock = 0
    /\ LET expired == {id \in RoomIds :
                          /\ registry.rooms[id] # 0
                          /\ PeerCount(registry.rooms[id]) = 0
                          /\ now - registry.lastEmpty[registry.rooms[id]] > RoomIdle}
       IN /\ expired # {}
          /\ registry' = [registry EXCEPT
                 !.rooms = [id \in RoomIds |-> IF id \in expired THEN 0 ELSE @[id]],
                 !.deleted = @ \cup {registry.rooms[id] : id \in expired}]
    /\ UNCHANGED <<sigVars, trackVars, negVars, mgrVars, fanVars, ping, wsErr, wrVars, admin, banStore, rx, req, ipq, sysVars,
                   call>>

\* HandleWS after GetOrCreateRoom returned: room.Lock.Lock(); the capacity
\* test (two callers never fill a room); room.Peers[peerID] = peer; Unlock
GocJoin(c) ==
    /\ call[c].pc = "done"
    /\ members' = members \cup {<<c, call[c].ret>>}
    /\ call' = [call EXCEPT ![c].pc = "joined"]
    /\ UNCHANGED <<sigVars, trackVars, negVars, mgrVars, fanVars, ping, wsErr, wrVars, admin, banStore, rx, req, ipq,
                   resp, lockVars, tick, registry>>

\* the teardown: delete(room.Peers, peerID); if len(room.Peers) == 0 then
\* room.LastEmptyTime = time.Now()
GocLeave(c) ==
    /\ call[c].pc = "joined"
    /\ members' = members \ {<<c, call[c].ret>>}
    /\ registry' = IF PeerCount(call[c].ret) = 1
                     THEN [registry EXCEPT !.lastEmpty[call[c].ret] = now]
                     ELSE registry
    /\ call' = [call EXCEPT ![c].pc = "idle"]
    /\ UNCHANGED <<sigVars, trackVars, negVars, mgrVars, fanVars, ping, wsErr, wrVars, admin, banStore, rx, req, ipq,
                   resp, lockVars, tick>>

\* the goroutines that write to a peer's websocket: its HandleWS goroutine
\* (error, room_state, answer), another peer's handler in Room.Broadcast,
\* its negotiation worker (offer), its OnICECandidate callback (candidate)
\* and its ping goroutine
Writers == {"handler", "broadcast", "worker", "ice", "ping"}

Locks_NotPing(t) == t # "ping"

\* p.WsMutex.Lock() in Peer.WriteJSON, peer.WsMutex.Lock() before the ping
Locks(t) == TRUE

\* a goroutine reaches a write to p's websocket
WsCall(p, t) ==
    /\ wr[p][t] = "idle"
    /\ wr' = [wr EXCEPT ![p][t] = "lock"]
    /\ UNCHANGED <<sigVars, trackVars, negVars, mgrVars, fanVars, ping, wsErr, wsMutex, admin, regVars, banStore, rx, req, ipq, sysVars>>

\* WsMutex.Lock() returns: the mutex was free and is now the caller's
WsLock(p, t) ==
    /\ wr[p][t] = "lock"
    /\ IF Locks(t)
         THEN /\ wsMutex[p] = "free"
              /\ wsMutex' = [wsMutex EXCEPT ![p] = t]
         ELSE UNCHANGED wsMutex
    /\ wr' = [wr EXCEPT ![p][t] = "held"]
    /\ UNCHANGED <<sigVars, trackVars, negVars, mgrVars, fanVars, ping, wsErr, admin, regVars, banStore, rx, req, ipq, sysVars>>

\* p.Conn.WriteJSON(v) or conn.WriteControl(ping) starts to put its frame
\* on the connection
WsWriteBegin(p, t) ==
    /\ wr[p][t] = "held"
    /\ wr' = [wr EXCEPT ![p][t] = "writing"]
    /\ UNCHANGED <<sigVars, trackVars, negVars, mgrVars, fanVars, ping, wsErr, wsMutex, admin, regVars, banStore, rx, req, ipq, sysVars>>

\* the write returns, with or without an error
WsWriteEnd(p, t) ==
    /\ wr[p][t] = "writing"
    /\ wr' = [wr EXCEPT ![p][t] = "wrote"]
    /\ UNCHANGED <<sigVars, trackVars, negVars, mgrVars, fanVars, ping, wsErr, wsMutex, admin, regVars, banStore, rx, req, ipq, sysVars>>

\* WsMutex.Unlock(), deferred in Peer.WriteJSON and explicit after the ping
WsUnlock(p, t) ==
    /\ wr[p][t] = "wrote"
    /\ wr' = [wr EXCEPT ![p][t] = "idle"]
    /\ wsMutex' = IF Locks(t) THEN [wsMutex EXCEPT ![p] = "free"] ELSE wsMutex
    /\ UNCHANGED <<sigVars, trackVars, negVars, mgrVars, fanVars, ping, wsErr, admin, regVars, banStore, rx, req, ipq, sysVars>>

\* nobody is writing and every write mutex is free
WrInit(C) ==
    /\ wsMutex = [c \in C |-> "free"]
    /\ wr = [c \in C |-> [t \in Writers |-> "idle"]]

\* ------------------------------------------------------------- the locks
\* rm.Lock, room.Lock, room.ForwardersMu, one forwarder's subscriber lock and
\* the WsMutex of peer 1; a step that takes no lock and is not I/O under a
\* lock is left out of the tasks
LockNames == {"rm", "room", "fwds", "subs", "ws1"}

Op(kind, lock) == [kind |-> kind, lock |-> lock]

\* Room.Broadcast, to one other peer: the list is taken under the read lock,
\* the frame is written under that peer's WsMutex
BroadcastOps(ws) ==
    <<Op("rlock", "room"), Op("runlock", "room"), Op("lock", ws), Op("unlock", ws)>>

\* HandleWS of peer 1 up to its room_state frame: GetOrCreateRoom (ROOM_CREATE
\* is logged before the deferred Unlock), the capacity test and the
\* insertion, the peer list under the read lock, the frame under WsMutex
JoinOps ==
    <<Op("lock", "rm"), Op("io", "log"), Op("unlock", "rm"),
      Op("lock", "room"), Op("unlock", "room"),
      Op("rlock", "room"), Op("runlock", "room"),
      Op("lock", "ws1"), Op("unlock", "ws1")>>

\* the deferred teardown of peer 2's HandleWS: Unsubscribe under the forwarders read
\* lock, Stop() and delete under the write lock, the removal from room.Peers,
\* conn.Close() and the peer_leave broadcast
TeardownOps ==
    <<Op("rlock", "fwds"), Op("lock", "subs"), Op("unlock", "subs"),
      Op("runlock", "fwds"),
      Op("lock", "fwds"), Op("stop", "fwds"), Op("return", "fwds"),
      Op("unlock", "fwds"),
      Op("lock", "room"), Op("unlock", "room")>>
    \o BroadcastOps("ws1")

\* broadcastTrack: install under the forwarders lock, the receivers under
\* the peers read lock, Subscribe under the subscriber lock
BroadcastTrackOps ==
    <<Op("lock", "fwds"), Op("unlock", "fwds"),
      Op("rlock", "room"), Op("runlock", "room"),
      Op("lock", "subs"), Op("unlock", "subs")>>

\* the forwarder's loop: the subscribers are read under the subscriber lock
\* and written to outside it; once the done signal is closed the loop ends
\* and calls onStop, which takes the forwarders lock
ForwarderOps ==
    <<Op("rlock", "subs"), Op("runlock", "subs"),
      Op("await", "fwds"), Op("lock", "fwds"), Op("unlock", "fwds")>>

\* RoomManager.cleanup: everything under rm.Lock, each room's count under
\* its read lock, ROOM_DESTROY logged before the deferred Unlock
CleanupOps ==
    <<Op("lock", "rm"), Op("rlock", "room"), Op("runlock", "room"),
      Op("io", "log"), Op("unlock", "rm")>>

\* getStats
StatsOps ==
    <<Op("rlock", "rm"), Op("rlock", "room"), Op("runlock", "room"),
      Op("runlock", "rm")>>

\* BanIP: saveBanList between Lock and Unlock, ADMIN_BAN logged after
BanOps ==
    <<Op("lock", "rm"), Op("io", "file"), Op("unlock", "rm"), Op("io", "log")>>

TaskNames == {"join", "teardown", "broadcastTrack", "forwarder", "reaper", "stats", "ban"}

Program(t) ==
    CASE t = "join" -> JoinOps
      [] t = "teardown" -> TeardownOps
      [] t = "broadcastTrack" -> BroadcastTrackOps
      [] t = "forwarder" -> ForwarderOps
      [] t = "reaper" -> CleanupOps
      [] t = "stats" -> StatsOps
      [] t = "ban" -> BanOps

FreeLock == [w |-> "", r |-> {}, q |-> {}]

LockInit ==
    /\ lk = [l \in LockNames |-> FreeLock]
    /\ tk = [t \in TaskNames |-> 1]
    /\ fstop = FALSE

Finished(t) == tk[t] > Len(Program(t))
NextOp(t) == Program(t)[tk[t]]
At(t, kind) == ~Finished(t) /\ NextOp(t).kind = kind

LockFrame ==
    UNCHANGED <<sigVars, trackVars, negVars, mgrVars, fanVars, ping, wsErr, wrVars,
                admin, regVars, banStore, rx, req, ipq, resp, members, tick>>

\* sync.RWMutex: Lock succeeds when nobody holds the lock; RLock succeeds
\* when no writer holds it or waits for it
CanLock(l) == lk[l].w = "" /\ lk[l].r = {}
CanRLock(l) == lk[l].w = "" /\ lk[l].q = {}

\* Lock(): taken at once, or the caller is from now on a waiting writer
TaskLock(t) ==
    /\ At(t, "lock")
    /\ LET l == NextOp(t).lock
       IN IF CanLock(l)
            THEN /\ lk' = [lk EXCEPT ![l].w = t, ![l].q = @ \ {t}]
                 /\ tk' = [tk EXCEPT ![t] = @ + 1]
            ELSE /\ t \notin lk[l].q
                 /\ lk' = [lk EXCEPT ![l].q = @ \cup {t}]
                 /\ UNCHANGED tk
    /\ UNCHANGED fstop
    /\ LockFrame

TaskRLock(t) ==
    /\ At(t, "rlock")
    /\ CanRLock(NextOp(t).lock)
    /\ lk' = [lk EXCEPT ![NextOp(t).lock].r = @ \cup {t}]
    /\ tk' = [tk EXCEPT ![t] = @ + 1]
    /\ UNCHANGED fstop
    /\ LockFrame

TaskUnlock(t) ==
    /\ At(t, "unlock")
    /\ lk' = [lk EXCEPT ![NextOp(t).lock].w = ""]
    /\ tk' = [tk EXCEPT ![t] = @ + 1]
    /\ UNCHANGED fstop
    /\ LockFrame

TaskRUnlock(t) ==
    /\ At(t, "runlock")
    /\ lk' = [lk EXCEPT ![NextOp(t).lock].r = @ \ {t}]
    /\ tk' = [tk EXCEPT ![t] = @ + 1]
    /\ UNCHANGED fstop
    /\ LockFrame

\* a write to a socket, a file or the log: it ends without any lock
TaskIO(t) ==
    /\ At(t, "io")
    /\ tk' = [tk EXCEPT ![t] = @ + 1]
    /\ UNCHANGED <<lk, fstop>>
    /\ LockFrame

\* forwarder.Stop(): closes the done signal
TaskStop(t) ==
    /\ At(t, "stop")
    /\ fstop' = TRUE
    /\ tk' = [tk EXCEPT ![t] = @ + 1]
    /\ UNCHANGED lk
    /\ LockFrame

StopReturns_AfterOnStop == Finished("forwarder")

\* Stop() returns once the signal is closed, whatever the loop does
StopReturns == TRUE

TaskStopReturn(t) ==
    /\ At(t, "return")
    /\ StopReturns
    /\ tk' = [tk EXCEPT ![t] = @ + 1]
    /\ UNCHANGED <<lk, fstop>>
    /\ LockFrame

\* the forwarder's loop sees the closed done signal
TaskAwaitStop(t) ==
    /\ At(t, "await")
    /\ fstop
    /\ tk' = [tk EXCEPT ![t] = @ + 1]
    /\ UNCHANGED <<lk, fstop>>
    /\ LockFrame

\* the task has a step to take
CanStep(t) ==
    /\ ~Finished(t)
    /\ CASE NextOp(t).kind = "lock" -> CanLock(NextOp(t).lock) \/ t \notin lk[NextOp(t).lock].q
         [] NextOp(t).kind = "rlock" -> CanRLock(NextOp(t).lock)
         [] NextOp(t).kind = "return" -> StopReturns
         [] NextOp(t).kind = "await" -> fstop
         [] OTHER -> TRUE

\* ------------------------------------------------------------ HTTP routes
\* a URL path is the sequence of its segments; a ServeMux pattern is a path
\* that stands for itself or, written with a trailing slash, for every path
\* under it
Route(segs, subtree, handler, secured) ==
    [segs |-> segs, subtree |-> subtree, handler |-> handler, secured |-> secured]

\* the routes main registers; secured: the handler is wrapped in
\* withSecurityHeaders
Routes ==
    {Route(<<"ws">>, FALSE, "ws", FALSE),
     Route(<<"admin">>, FALSE, "admin", TRUE),
     Route(<<"static", "js", "config.js">>, FALSE, "config", FALSE),
     Route(<<"static">>, TRUE, "files", TRUE),
     Route(<<>>, TRUE, "app", TRUE)}

\* the pattern stands for the path
Matches(route, path) ==
    IF route.subtree
      THEN /\ Len(path) >= Len(route.segs)
           /\ SubSeq(path, 1, Len(route.segs)) = route.segs
      ELSE path = route.segs

\* ServeMux: of the patterns that match, the longest
Match(path) ==
    CHOOSE route \in Routes :
        /\ Matches(route, path)
        /\ \A other \in Routes :
              Matches(other, path) => Len(other.segs) <= Len(route.segs)

\* buildCSP: connect-src names the first X-Forwarded-Host entry, or else
\* r.Host, if there is one
BuildCSP(host, xfwd) ==
    LET h == IF xfwd # <<>> THEN xfwd[1] ELSE host
    IN IF h # "" THEN "connect-src 'self' ws wss " \o h ELSE "connect-src 'self'"

\* setSecurityHeaders
SecurityHeaders(host, xfwd) ==
    {<<"X-Content-Type-Options", "nosniff">>,
     <<"X-Frame-Options", "DENY">>,
     <<"Referrer-Policy", "no-referrer">>,
     <<"Permissions-Policy", "microphone=(self)">>,
     <<"Content-Security-Policy", BuildCSP(host, xfwd)>>}

\* the files under web/static, and the paths requested
StaticFiles == {<<"js", "app.js">>}
Paths ==
    {<<"admin">>, <<"static", "js", "config.js">>, <<"static", "js", "app.js">>,
     <<"static", "nofile">>, <<>>, <<"r", "abc">>, <<"r">>, <<"nope">>}
HttpRequests ==
    [path : Paths, host : {"", "h1"}, xfwd : {<<>>, <<"h2", "h3">>},
     key : Keys, action : {"stats", "ban"}]

NoResp == [path |-> <<"none">>, status |-> 0, headers |-> {}]
SysInit == resp = NoResp /\ LockInit /\ members = {}

\* r.URL.Path == "/" || (len(r.URL.Path) > 3 && r.URL.Path[:3] == "/r/")
IsAppPath(path) == path = <<>> \/ (Len(path) >= 2 /\ path[1] = "r")

\* the server answers a request that is not for /ws: the route's wrapper, if
\* it has one, sets the security headers and the handler writes the rest
ServeHTTP(r) ==
    LET route == Match(r.path)
        sec == IF route.secured THEN SecurityHeaders(r.host, r.xfwd) ELSE {}
    IN /\ \/ /\ route.handler = "admin"
             /\ HandleAdminDo(r.key, "GET", r.action, "ip1")
             /\ resp' = [path |-> r.path, status |-> admin'.status, headers |-> sec]
          \/ /\ route.handler = "config"
             /\ resp' = [path |-> r.path, status |-> 200,
                         headers |-> sec \cup
                            {<<"Content-Type", "application/javascript">>,
                             <<"Cache-Control", "no-cache, no-store, must-revalidate">>}]
             /\ UNCHANGED <<sigVars, trackVars, negVars, mgrVars, fanVars, ping, wsErr, wrVars,
                            admin, regVars, banStore, rx, req, ipq>>
          \/ /\ route.handler = "files"
             /\ resp' = [path |-> r.path,
                         status |-> IF SubSeq(r.path, 2, Len(r.path)) \in StaticFiles
                                      THEN 200 ELSE 404,
                         headers |-> sec]
             /\ UNCHANGED <<sigVars, trackVars, negVars, mgrVars, fanVars, ping, wsErr, wrVars,
                            admin, regVars, banStore, rx, req, ipq>>
          \/ /\ route.handler = "app"
             /\ resp' = [path |-> r.path,
                         status |-> IF IsAppPath(r.path) THEN 200 ELSE 404,
                         headers |-> sec]
             /\ UNCHANGED <<sigVars, trackVars, negVars, mgrVars, fanVars, ping, wsErr, wrVars,
                            admin, regVars, banStore, rx, req, ipq>>
       /\ UNCHANGED <<lockVars, members, tick>>

AuxInit(C) ==
    /\ WrInit(C)
    /\ admin = NoAdmin
    /\ RegInit
    /\ BanStoreInit
    /\ rx = [c \in C |-> NoRx]
    /\ req = [c \in C |-> GoodRequest]
    /\ SysInit
    /\ tick = [c \in C |-> FALSE]

\* the ping goroutine runs from the upgrade on; no write has failed
ConnExtInit(C) ==
    /\ ping = [c \in C |-> IF pc[c] \in BeforeUpgrade THEN "none" ELSE "running"]
    /\ wsErr = [c \in C |-> FALSE]
    /\ AuxInit(C)

\* and no request has had its client ip derived
ExtInit(C) ==
    /\ ConnExtInit(C)
    /\ ipq = NoIpq

\* connections that were just upgraded and have their room, which is empty
FreshInit(C) == ConnInit(C, "start")

\* nobody is banned, the room was created at time 0 and is in rm.Rooms, the
\* reaper is between two cleanup calls; every connection comes from ip1
MgrInit(C) ==
    /\ connIP = [c \in C |-> "ip1"]
    /\ bannedIPs = {}
    /\ banFile = {}
    /\ rmRooms = TRUE
    /\ lastEmptyTime = 0
    /\ reaper = NoCleanup
    /\ reapLog = <<>>

\* --------------------------------------------------------------- SpecCap
\* Residents 1..CapResidents joined one after the other and sit in their read
\* loops; the joiners were just upgraded.
CapConns == 1..(CapResidents + CapJoiners)
CapResidentSet == 1..CapResidents

\* what resident c has been sent: its room_state, then the later joins
ResidentFrames(c) ==
    <<RoomStateFrame(c, 1..c)>> \o
    [i \in 1..(CapResidents - c) |-> PeerJoinFrame(c + i)]

InitCap ==
    /\ pc = [c \in CapConns |-> IF c \in CapResidentSet THEN "loop" ELSE "start"]
    /\ roomPeers = CapResidentSet
    /\ frames = [c \in CapConns |->
                   IF c \in CapResidentSet THEN ResidentFrames(c) ELSE <<>>]
    /\ connOpen = [c \in CapConns |-> TRUE]
    /\ clientGone = [c \in CapConns |-> FALSE]
    /\ rsPeers = [c \in CapConns |-> IF c \in CapResidentSet THEN 1..c ELSE {}]
    /\ joinTargets = [c \in CapConns |-> {}]
    /\ leaveTargets = [c \in CapConns |-> {}]
    /\ peerPC = [c \in CapConns |-> IF c \in CapResidentSet THEN "open" ELSE "nil"]
    /\ peerDone = [c \in CapConns |-> FALSE]
    /\ TrackInit(CapConns)
    /\ NegInit(CapConns)
    /\ MgrInit(CapConns)
    /\ FanInit(CapConns)
    /\ ExtInit(CapConns)

\* A registered peer leaves: the handler's way from registration or from the
\* read loop to the teardown's delete(room.Peers, peerID).  The steps in
\* between do not write room.Peers and are left out of SpecCap.
HandleWSDepart(p) ==
    /\ pc[p] \in {"registered", "loop"}
    /\ roomPeers' = roomPeers \ {p}
    /\ lastEmptyTime' = IF roomPeers \ {p} = {} THEN now ELSE lastEmptyTime
    /\ pc' = [pc EXCEPT ![p] = "td_close"]
    /\ UNCHANGED <<frames, connOpen, clientGone, rsPeers, joinTargets,
                   leaveTargets, peerPC, peerDone, trackVars, negVars, connIP, fanVars, extVars,
                   bannedIPs, banFile, rmRooms, reaper, reapLog>>

NextCap ==
    \/ \E p \in Conns : HandleWSAdmit(p)
    \/ \E p \in Conns : HandleWSRoomFull(p)
    \/ \E p \in Conns : HandleWSDepart(p)

SpecCap == InitCap /\ [][NextCap]_vars

\* --------------------------------------------------------------- SpecSig
InitSig ==
    /\ FreshInit(1..SigConns)
    /\ TrackInit(1..SigConns)
    /\ NegInit(1..SigConns)
    /\ MgrInit(1..SigConns)
    /\ FanInit(1..SigConns)
    /\ ExtInit(1..SigConns)

\* the steps of HandleWS, of its deferred teardown and of the client, in a
\* room where nobody publishes a track
NextSig ==
    \/ \E p \in Conns : HandleWSAdmit(p)
    \/ \E p \in Conns : SendRoomStateSnapshot(p)
    \/ \E p \in Conns : SendRoomStateWrite(p)
    \/ \E p \in Conns : BroadcastJoinSnapshot(p)
    \/ \E p, r \in Conns : BroadcastJoinWrite(p, r)
    \/ \E p \in Conns : SendRoomStateReturn(p)
    \/ \E p \in Conns : SetupWebRTC(p)
    \/ \E p \in Conns : SetupWebRTCFails(p)
    \/ \E p \in Conns : AddExistingTracksSnapshot(p)
    \/ \E p \in Conns : AddExistingTracksReturn(p)
    \/ \E p \in Conns : ReadLoopBreak(p)
    \/ \E p \in Conns : TeardownSignalDone(p)
    \/ \E p \in Conns : TeardownUnsubscribe(p)
    \/ \E p \in Conns : TeardownStopForwarder(p)
    \/ \E p \in Conns : TeardownRemovePeer(p)
    \/ \E p \in Conns : TeardownClose(p)
    \/ \E p \in Conns : BroadcastLeaveSnapshot(p)
    \/ \E p, r \in Conns : BroadcastLeaveWrite(p, r)

SpecSig == InitSig /\ [][NextSig]_vars

\* Room.Broadcast as one step: msg is written to every peer of the snapshot
BroadcastAll(fr, sender, msg) ==
    [r \in Conns |-> IF r \in BroadcastSnapshot(sender) /\ connOpen[r] /\ ~wsErr[r]
                       THEN Append(fr[r], msg) ELSE fr[r]]

\* sendRoomState as one step (SpecTrack): it reads room.Peers and writes to
\* the channels only, which no step of the track bookkeeping reads
SendRoomState(p) ==
    /\ pc[p] = "registered"
    /\ rsPeers' = [rsPeers EXCEPT ![p] = roomPeers]
    /\ frames' = BroadcastAll(WriteJSON(frames, p, RoomStateFrame(p, roomPeers)),
                              p, PeerJoinFrame(p))
    /\ pc' = [pc EXCEPT ![p] = "setup"]
    /\ UNCHANGED <<trackVars, negVars, mgrVars, fanVars, extVars, roomPeers, connOpen, clientGone,
                   joinTargets, leaveTargets, peerPC, peerDone>>

\* the teardown's room.Broadcast(peer_leave) as one step (SpecTrack)
BroadcastLeave(p) ==
    /\ pc[p] = "pl_snap"
    /\ frames' = BroadcastAll(frames, p, PeerLeaveFrame(p))
    /\ pc' = [pc EXCEPT ![p] = "pl_write"]
    /\ UNCHANGED <<trackVars, negVars, mgrVars, fanVars, extVars, roomPeers, connOpen, clientGone, rsPeers,
                   joinTargets, leaveTargets, peerPC, peerDone>>

\* -------------------------------------------------------------- SpecTrack
InitTrack ==
    /\ FreshInit(1..TrackConns)
    /\ TrackInit(1..TrackConns)
    /\ NegInit(1..TrackConns)
    /\ MgrInit(1..TrackConns)
    /\ FanInit(1..TrackConns)
    /\ ExtInit(1..TrackConns)

\* the handlers (NewPeerConnection succeeds), the incoming tracks and the
\* forwarders
NextTrack ==
    \/ \E p \in Conns : HandleWSAdmit(p)
    \/ \E p \in Conns : SendRoomState(p)
    \/ \E p \in Conns : SetupWebRTC(p)
    \/ \E p \in Conns : AddExistingTracksSnapshot(p)
    \/ \E p \in Conns, f \in FwdIds : AddExistingTracksCall(p, f)
    \/ \E p \in Conns : AddExistingTracksStep(p)
    \/ \E p \in Conns : AddExistingTracksReturn(p)
    \/ \E p \in Conns : ReadLoopBreak(p)
    \/ \E p \in Conns : TeardownSignalDone(p)
    \/ \E p \in Conns : TeardownUnsubscribe(p)
    \/ \E p \in Conns : TeardownStopForwarder(p)
    \/ \E p \in Conns : TeardownRemovePeer(p)
    \/ \E p \in Conns : TeardownClose(p)
    \/ \E p \in Conns : BroadcastLeave(p)
    \/ \E s \in Conns, f \in FwdIds : OnTrack(s, f)
    \/ \E f \in FwdIds : BroadcastTrackInstall(f)
    \/ \E f \in FwdIds : BroadcastTrackStopOld(f)
    \/ \E f \in FwdIds : BroadcastTrackSnapshot(f)
    \/ \E f \in FwdIds, r \in Conns : BroadcastTrackCall(f, r)
    \/ \E f \in FwdIds : BroadcastTrackStep(f)
    \/ \E f \in FwdIds : BroadcastTrackStart(f)
    \/ \E f \in FwdIds : ForwarderExit(f)
    \/ \E f \in FwdIds, r \in Conns : ForwarderWriteClosed(f, r)

SpecTrack == InitTrack /\ [][NextTrack]_vars

\* ---------------------------------------------------------------- SpecFwd
\* The fan-out of one publisher.  Peers 1..FwdResidents joined one after the
\* other and sit in their read loops; peer 1 published a track, broadcastTrack
\* subscribed the other residents and started the forwarder, and the
\* negotiations that followed are over.  The other connections were just
\* upgraded.  From there peers join, are subscribed and leave while the
\* forwarder reads and writes.
FwdAll == 1..(FwdResidents + FwdJoiners)
FwdResidentSet == 1..FwdResidents

\* residents R (peer 1 among them, publishing) and the connections A \ R
FwdStart(R, A) ==
    /\ pc = [c \in A |-> IF c \in R THEN "loop" ELSE "start"]
    /\ roomPeers = R
    /\ frames = [c \in A |->
                   IF c \in R
                     THEN <<RoomStateFrame(c, 1..c)>> \o
                          [i \in 1..(Cardinality(R) - c) |-> PeerJoinFrame(c + i)]
                     ELSE <<>>]
    /\ connOpen = [c \in A |-> TRUE]
    /\ clientGone = [c \in A |-> FALSE]
    /\ rsPeers = [c \in A |-> IF c \in R THEN 1..c ELSE {}]
    /\ joinTargets = [c \in A |-> {}]
    /\ leaveTargets = [c \in A |-> {}]
    /\ peerPC = [c \in A |-> IF c \in R THEN "open" ELSE "nil"]
    /\ peerDone = [c \in A |-> FALSE]
    /\ roomForwarders = [c \in A |-> IF c = 1 THEN 1 ELSE 0]
    /\ fwd = [f \in FwdIds |->
                IF f = 1 THEN [sender |-> 1, subs |-> R \ {1},
                               stopped |-> FALSE, state |-> "running"]
                         ELSE NoForwarder]
    /\ bt = [f \in FwdIds |-> IF f = 1 THEN [NoTask EXCEPT !.pc = "done"] ELSE NoTask]
    /\ hsub = [c \in A |-> NoCall]
    /\ outTracks = [c \in A |-> IF c \in R \ {1} THEN {1} ELSE {}]
    /\ trackAdds = [c \in A |-> [d \in A |->
                      IF c \in R \ {1} /\ d = 1 THEN 1 ELSE 0]]
    /\ NegInit(A)
    /\ MgrInit(A)
    /\ FanInit(A)
    /\ ExtInit(A)

InitFwd == FwdStart(FwdResidentSet, FwdAll)

NextFwd ==
    \/ \E p \in Conns : HandleWSAdmit(p)
    \/ \E p \in Conns : SendRoomState(p)
    \/ \E p \in Conns : SetupWebRTC(p)
    \/ \E p \in Conns : AddExistingTracksSnapshot(p)
    \/ \E p \in Conns, f \in FwdIds : AddExistingTracksCall(p, f)
    \/ \E p \in Conns : AddExistingTracksStep(p)
    \/ \E p \in Conns : AddExistingTracksReturn(p)
    \/ \E p \in Conns : ReadLoopBreak(p)
    \/ \E p \in Conns : TeardownSignalDone(p)
    \/ \E p \in Conns : TeardownUnsubscribe(p)
    \/ \E p \in Conns : TeardownStopForwarder(p)
    \/ \E p \in Conns : TeardownRemovePeer(p)
    \/ \E p \in Conns : TeardownClose(p)
    \/ \E p \in Conns : BroadcastLeave(p)
    \/ \E f \in FwdIds : ForwarderRead(f)
    \/ \E f \in FwdIds, r \in Conns, res \in WriteResults : ForwarderWrite(f, r, res)
    \/ \E f \in FwdIds : ForwarderExit(f)
    \/ \E f \in FwdIds : StopWithErrorCall(f)

SpecFwd == InitFwd /\ [][NextFwd]_vars

\* ---------------------------------------------------------------- SpecErr
\* Transport errors.  From the state SpecFwd starts in: peers join, their
\* writes and pings fail, their reads fail, and their handlers tear down.
\* A goroutine that can take a step takes one; a ping on a connection whose
\* writes fail is sent and fails; ReadMessage on a closed connection returns.
ErrAll == 1..(ErrResidents + ErrJoiners)

HandlerStep(p) ==
    \/ HandleWSAdmit(p)
    \/ SendRoomState(p)
    \/ SetupWebRTC(p)
    \/ AddExistingTracksSnapshot(p)
    \/ \E f \in FwdIds : AddExistingTracksCall(p, f)
    \/ AddExistingTracksStep(p)
    \/ AddExistingTracksReturn(p)
    \/ TeardownSignalDone(p)
    \/ TeardownUnsubscribe(p)
    \/ TeardownStopForwarder(p)
    \/ TeardownRemovePeer(p)
    \/ TeardownClose(p)
    \/ BroadcastLeave(p)

NextErr ==
    \/ \E p \in Conns : HandlerStep(p)
    \/ \E p \in Conns : ReadLoopBreak(p)
    \/ \E p \in Conns : WriteFails(p)
    \/ \E p \in Conns : PingFails(p)
    \/ \E p \in Conns : PingSeesDone(p)
    \/ \E f \in FwdIds : ForwarderExit(f)

FairErr ==
    \A p \in ErrAll :
        /\ WF_vars(HandlerStep(p))
        /\ WF_vars(wsErr[p] /\ PingFails(p))
        /\ WF_vars(~connOpen[p] /\ ReadLoopBreak(p))
        /\ WF_vars(PingSeesDone(p))

InitErr == FwdStart(1..ErrResidents, ErrAll)

SpecErr == InitErr /\ [][NextErr]_vars /\ FairErr

\* ------------------------------------------------------------- SpecWrite
WrPeers == 2

InitWrite == FwdStart(1..WrPeers, 1..WrPeers)

\* the writes of every goroutine that sends on a peer's websocket
NextWrite ==
    \/ \E p \in Conns, t \in Writers : WsCall(p, t)
    \/ \E p \in Conns, t \in Writers : WsLock(p, t)
    \/ \E p \in Conns, t \in Writers : WsWriteBegin(p, t)
    \/ \E p \in Conns, t \in Writers : WsWriteEnd(p, t)
    \/ \E p \in Conns, t \in Writers : WsUnlock(p, t)

SpecWrite == InitWrite /\ [][NextWrite]_vars

\* ---------------------------------------------------------------- SpecNeg
\* The negotiation flags, the worker and the signaling state belong to one
\* peer and no other peer's handler touches them: one connection, from its
\* upgrade to the end of its teardown, with the clock standing still.
NegPeers == {1}

InitNeg ==
    /\ FreshInit(NegPeers)
    /\ TrackInit(NegPeers)
    /\ NegInit(NegPeers)
    /\ MgrInit(NegPeers)
    /\ FanInit(NegPeers)
    /\ ExtInit(NegPeers)

NextNeg ==
    \/ \E p \in Conns : HandleWSAdmit(p)
    \/ \E p \in Conns : SendRoomState(p)
    \/ \E p \in Conns : SetupWebRTC(p)
    \/ \E p \in Conns : AddExistingTracksSnapshot(p)
    \/ \E p \in Conns : AddExistingTracksReturn(p)
    \/ \E p \in Conns : RequestNegotiation(p)
    \/ \E p \in Conns : RequestICERestart(p)
    \/ \E p \in Conns, i \in Slots : WorkerTop(p, i)
    \/ \E p \in Conns, i \in Slots : WorkerReadPending(p, i)
    \/ \E p \in Conns, i \in Slots : WorkerCheckPC(p, i)
    \/ \E p \in Conns, i \in Slots : WorkerClearPending(p, i)
    \/ \E p \in Conns, i \in Slots : WorkerCreateOffer(p, i)
    \/ \E p \in Conns, i \in Slots : WorkerSetLocalDescription(p, i)
    \/ \E p \in Conns, i \in Slots : WorkerAfterOffer(p, i)
    \/ \E p \in Conns, i \in Slots : WorkerSendOffer(p, i)
    \/ \E p \in Conns, i \in Slots : WorkerExit(p, i)
    \/ \E p \in Conns : RecvOffer(p)
    \/ \E p \in Conns : HandleOfferRollback(p)
    \/ \E p \in Conns : HandleOfferSetRemote(p)
    \/ \E p \in Conns : HandleOfferAnswer(p)
    \/ \E p \in Conns : HandleOfferRequest(p)
    \/ \E p \in Conns : RecvAnswer(p)
    \/ \E p \in Conns : ReadLoopBreak(p)
    \/ \E p \in Conns : TeardownSignalDone(p)
    \/ \E p \in Conns : TeardownUnsubscribe(p)
    \/ \E p \in Conns : TeardownStopForwarder(p)
    \/ \E p \in Conns : TeardownRemovePeer(p)
    \/ \E p \in Conns : TeardownClose(p)
    \/ \E p \in Conns : BroadcastLeave(p)

SpecNeg == InitNeg /\ [][NextNeg]_vars

\* --------------------------------------------------------------- SpecCand
\* One connection from its upgrade on: the client's offers, answers and ICE
\* candidates in the read loop, and the negotiation worker that makes the
\* server's offers.
InitCand ==
    /\ FreshInit(NegPeers)
    /\ TrackInit(NegPeers)
    /\ NegInit(NegPeers)
    /\ MgrInit(NegPeers)
    /\ FanInit(NegPeers)
    /\ ExtInit(NegPeers)

NextCand ==
    \/ \E p \in Conns : HandleWSAdmit(p)
    \/ \E p \in Conns : SendRoomState(p)
    \/ \E p \in Conns : SetupWebRTC(p)
    \/ \E p \in Conns : AddExistingTracksSnapshot(p)
    \/ \E p \in Conns : AddExistingTracksReturn(p)
    \/ \E p \in Conns : RequestNegotiation(p)
    \/ \E p \in Conns, i \in Slots : WorkerTop(p, i)
    \/ \E p \in Conns, i \in Slots : WorkerReadPending(p, i)
    \/ \E p \in Conns, i \in Slots : WorkerCheckPC(p, i)
    \/ \E p \in Conns, i \in Slots : WorkerClearPending(p, i)
    \/ \E p \in Conns, i \in Slots : WorkerCreateOffer(p, i)
    \/ \E p \in Conns, i \in Slots : WorkerSetLocalDescription(p, i)
    \/ \E p \in Conns, i \in Slots : WorkerAfterOffer(p, i)
    \/ \E p \in Conns, i \in Slots : WorkerSendOffer(p, i)
    \/ \E p \in Conns, i \in Slots : WorkerExit(p, i)
    \/ \E p \in Conns : RecvOffer(p)
    \/ \E p \in Conns : HandleOfferRollback(p)
    \/ \E p \in Conns : HandleOfferSetRemote(p)
    \/ \E p \in Conns : HandleOfferAnswer(p)
    \/ \E p \in Conns : HandleOfferRequest(p)
    \/ \E p \in Conns : RecvAnswer(p)
    \/ \E p \in Conns : RecvCandidate(p)

SpecCand == InitCand /\ [][NextCand]_vars

\* --------------------------------------------------------------- SpecDone
\* SpecNeg with the ping goroutine.  The negotiation workers and the ping
\* goroutine take a step whenever they can; nothing is assumed of the
\* handler and of the client.
WorkerStep(p, i) ==
    \/ WorkerTop(p, i)
    \/ WorkerReadPending(p, i)
    \/ WorkerCheckPC(p, i)
    \/ WorkerClearPending(p, i)
    \/ WorkerCreateOffer(p, i)
    \/ WorkerSetLocalDescription(p, i)
    \/ WorkerAfterOffer(p, i)
    \/ WorkerSendOffer(p, i)
    \/ WorkerExit(p, i)

NextDone ==
    \/ NextNeg
    \/ \E p \in Conns : PingFails(p)
    \/ \E p \in Conns : PingSeesDone(p)

FairDone ==
    \A p \in NegPeers :
        /\ WF_vars(PingSeesDone(p))
        /\ \A i \in Slots : WF_vars(WorkerStep(p, i))

SpecDone == InitNeg /\ [][NextDone]_vars /\ FairDone

\* ---------------------------------------------------------------- SpecMsg
\* SpecCand with a client that sends frames of every kind
NextMsg ==
    \/ \E p \in Conns : HandleWSAdmit(p)
    \/ \E p \in Conns : SendRoomState(p)
    \/ \E p \in Conns : SetupWebRTC(p)
    \/ \E p \in Conns : AddExistingTracksSnapshot(p)
    \/ \E p \in Conns : AddExistingTracksReturn(p)
    \/ \E p \in Conns : RequestNegotiation(p)
    \/ \E p \in Conns, i \in Slots : WorkerStep(p, i)
    \/ \E p \in Conns : HandleOfferRollback(p)
    \/ \E p \in Conns : HandleOfferSetRemote(p)
    \/ \E p \in Conns : HandleOfferAnswer(p)
    \/ \E p \in Conns : HandleOfferRequest(p)
    \/ \E p \in Conns, f \in InFrames : ReadFrame(p, f)

SpecMsg == InitCand /\ [][NextMsg]_vars

\* ---------------------------------------------------------------- SpecIce
\* One peer from its upgrade to the end of its teardown, its ICE state
\* callbacks and the clock; the worker the requests start is left where it is
\* started.
InitIce ==
    /\ FreshInit(NegPeers)
    /\ TrackInit(NegPeers)
    /\ NegInit(NegPeers)
    /\ MgrInit(NegPeers)
    /\ FanInit(NegPeers)
    /\ ExtInit(NegPeers)

IceStates == {"connected", "disconnected", "failed"}

NextIce ==
    \/ \E p \in Conns : HandleWSAdmit(p)
    \/ \E p \in Conns : SendRoomState(p)
    \/ \E p \in Conns : SetupWebRTC(p)
    \/ \E p \in Conns : AddExistingTracksSnapshot(p)
    \/ \E p \in Conns : AddExistingTracksReturn(p)
    \/ \E p \in Conns, st \in IceStates : IceConnectionStateChange(p, st)
    \/ \E p \in Conns : ConnectionStateFailed(p)
    \/ \E p \in Conns, t \in 0..(MaxTime + iceRestartDelay) : DisconnectedWake(p, t)
    \/ \E p \in Conns, t \in 0..(MaxTime + iceRestartDelay) : DisconnectedCheck(p, t)
    \/ \E p \in Conns : ReadLoopBreak(p)
    \/ \E p \in Conns : TeardownSignalDone(p)
    \/ \E p \in Conns : TeardownUnsubscribe(p)
    \/ \E p \in Conns : TeardownStopForwarder(p)
    \/ \E p \in Conns : TeardownRemovePeer(p)
    \/ \E p \in Conns : TeardownClose(p)
    \/ \E p \in Conns : BroadcastLeave(p)
    \/ Tick

SpecIce == InitIce /\ [][NextIce]_vars

\* --------------------------------------------------------------- SpecReap
\* Connections that were just upgraded ask for the room, join and leave while
\* the reaper runs and the hours pass.
InitReap ==
    /\ ConnInit(1..ReapConns, "upgraded")
    /\ TrackInit(1..ReapConns)
    /\ NegInit(1..ReapConns)
    /\ MgrInit(1..ReapConns)
    /\ FanInit(1..ReapConns)
    /\ ExtInit(1..ReapConns)

NextReap ==
    \/ \E p \in Conns : GetOrCreateRoom(p)
    \/ \E p \in Conns : HandleWSAdmit(p)
    \/ \E p \in Conns : SendRoomState(p)
    \/ \E p \in Conns : SetupWebRTC(p)
    \/ \E p \in Conns : AddExistingTracksSnapshot(p)
    \/ \E p \in Conns : AddExistingTracksReturn(p)
    \/ \E p \in Conns : ReadLoopBreak(p)
    \/ \E p \in Conns : TeardownSignalDone(p)
    \/ \E p \in Conns : TeardownUnsubscribe(p)
    \/ \E p \in Conns : TeardownStopForwarder(p)
    \/ \E p \in Conns : TeardownRemovePeer(p)
    \/ \E p \in Conns : TeardownClose(p)
    \/ \E p \in Conns : BroadcastLeave(p)
    \/ CleanupRead
    \/ CleanupDecide
    \/ TickHour

SpecReap == InitReap /\ [][NextReap]_vars

\* ---------------------------------------------------------------- SpecBan
\* Requests from any of the client addresses arrive, are checked against the
\* ban set, join and leave, while the admin bans addresses and pings fail.
BanStart(C) ==
    /\ ConnInit(C, "request")
    /\ TrackInit(C)
    /\ NegInit(C)
    /\ FanInit(C)
    /\ ExtInit(C)
    /\ connIP \in [C -> IPs]
    /\ bannedIPs = {}
    /\ banFile = {}
    /\ rmRooms = TRUE
    /\ lastEmptyTime = 0
    /\ reaper = NoCleanup
    /\ reapLog = <<>>

InitBan == BanStart(1..BanConns)

NextBan ==
    \/ \E p \in Conns : HandleWSCheckBan(p)
    \/ \E p \in Conns : GetOrCreateRoom(p)
    \/ \E p \in Conns : HandleWSAdmit(p)
    \/ \E p \in Conns : SendRoomState(p)
    \/ \E p \in Conns : SetupWebRTC(p)
    \/ \E p \in Conns : AddExistingTracksSnapshot(p)
    \/ \E p \in Conns : AddExistingTracksReturn(p)
    \/ \E p \in Conns : ReadLoopBreak(p)
    \/ \E p \in Conns : TeardownSignalDone(p)
    \/ \E p \in Conns : TeardownUnsubscribe(p)
    \/ \E p \in Conns : TeardownStopForwarder(p)
    \/ \E p \in Conns : TeardownRemovePeer(p)
    \/ \E p \in Conns : TeardownClose(p)
    \/ \E p \in Conns : BroadcastLeave(p)
    \/ \E p \in Conns : PingFails(p)
    \/ \E ip \in IPs : BanIP(ip)

SpecBan == InitBan /\ [][NextBan]_vars

\* -------------------------------------------------------------- SpecAdmin
AdmConns == 1

InitAdmin == BanStart(1..AdmConns)

\* a client connects and leaves while /admin requests of every kind arrive
NextAdmin ==
    \/ \E p \in Conns : HandleWSCheckBan(p)
    \/ \E p \in Conns : GetOrCreateRoom(p)
    \/ \E p \in Conns : HandlerStep(p)
    \/ \E p \in Conns : ReadLoopBreak(p)
    \/ \E key \in Keys, method \in Methods, action \in Actions, ip \in IPs \cup {""} :
          HandleAdmin(key, method, action, ip)

SpecAdmin == InitAdmin /\ [][NextAdmin]_vars

\* --------------------------------------------------------------- SpecRoom
InitRoom == BanStart(1..1) /\ connIP[1] = "ip1"

\* goroutines call GetOrCreateRoom while the hours pass and the reaper runs
NextRoom ==
    \/ \E c \in Callers, id \in RoomIds : GocCall(c, id)
    \/ \E c \in Callers : GocLock(c)
    \/ \E c \in Callers : GocLookup(c)
    \/ \E c \in Callers : GocCreate(c)
    \/ \E c \in Callers : GocReturn(c)
    \/ RegCleanup
    \/ TickHour

SpecRoom == InitRoom /\ [][NextRoom]_vars

\* --------------------------------------------------------------- SpecFile
InitFile == BanStart(1..1) /\ connIP[1] = "ip1"

\* bans, restarts of the server and changes of the file by others
NextFile ==
    \/ \E i \in DOMAIN BanKeys : BanIPSave(BanKeys[i])
    \/ Restart
    \/ \E f \in OtherFiles : ReplaceFile(f)

SpecFile == InitFile /\ [][NextFile]_vars

\* ---------------------------------------------------------------- SpecReq
\* connection 1 asks for the room with a good name; connection 2 asks with
\* any room and name parameters
ReqConns == 2

InitReq ==
    /\ ConnInit(1..ReqConns, "arrived")
    /\ TrackInit(1..ReqConns)
    /\ NegInit(1..ReqConns)
    /\ FanInit(1..ReqConns)
    /\ wsErr = [c \in 1..ReqConns |-> FALSE]
    /\ ping = [c \in 1..ReqConns |-> "none"]
    /\ WrInit(1..ReqConns)
    /\ admin = NoAdmin
    /\ RegInit
    /\ BanStoreInit
    /\ rx = [c \in 1..ReqConns |-> NoRx]
    /\ ipq = NoIpq
    /\ SysInit
    /\ tick = [c \in 1..ReqConns |-> FALSE]
    /\ \E r \in Requests : req = [c \in 1..ReqConns |-> IF c = 1 THEN GoodRequest ELSE r]
    /\ connIP = [c \in 1..ReqConns |-> IF c = 1 THEN "ip1" ELSE "ip2"]
    /\ bannedIPs = {}
    /\ banFile = {}
    /\ rmRooms = FALSE
    /\ lastEmptyTime = 0
    /\ reaper = NoCleanup
    /\ reapLog = <<>>

\* requests are checked, clients join and leave, the admin bans
NextReq ==
    \/ \E p \in Conns : HandleWSCheckInput(p)
    \/ \E p \in Conns : HandleWSCheckBan(p)
    \/ \E p \in Conns : GetOrCreateRoom(p)
    \/ \E p \in Conns : HandlerStep(p)
    \/ \E p \in Conns : ReadLoopBreak(p)
    \/ \E ip \in IPs : BanIP(ip)

SpecReq == InitReq /\ [][NextReq]_vars

\* ----------------------------------------------------------------- SpecIP
\* a request of any kind has arrived
InitIP ==
    /\ ConnInit(1..1, "request")
    /\ TrackInit(1..1)
    /\ NegInit(1..1)
    /\ MgrInit(1..1)
    /\ FanInit(1..1)
    /\ ConnExtInit(1..1)
    /\ \E r \in IPRequests : ipq = [NoIpq EXCEPT !.r = r]

\* the request has its client ip derived
NextIP == DeriveClientIP

SpecIP == InitIP /\ [][NextIP]_vars

\* --------------------------------------------------------------- SpecHttp
InitHttp == BanStart(1..1) /\ connIP[1] = "ip1"

\* requests for every path but /ws
NextHttp == \E r \in HttpRequests : ServeHTTP(r)

SpecHttp == InitHttp /\ [][NextHttp]_vars

\* --------------------------------------------------------------- SpecLock
InitLock == BanStart(1..1) /\ connIP[1] = "ip1"

NextLock ==
    \/ \E t \in TaskNames : TaskLock(t)
    \/ \E t \in TaskNames : TaskRLock(t)
    \/ \E t \in TaskNames : TaskUnlock(t)
    \/ \E t \in TaskNames : TaskRUnlock(t)
    \/ \E t \in TaskNames : TaskIO(t)
    \/ \E t \in TaskNames : TaskStop(t)
    \/ \E t \in TaskNames : TaskStopReturn(t)
    \/ \E t \in TaskNames : TaskAwaitStop(t)

SpecLock == InitLock /\ [][NextLock]_vars

\* --------------------------------------------------------------- SpecJoin
InitJoin == BanStart(1..1) /\ connIP[1] = "ip1"

\* as SpecRoom, and the callers join the room they were given and leave it
NextJoin ==
    \/ \E c \in Callers, id \in RoomIds : GocCall(c, id)
    \/ \E c \in Callers : GocLock(c)
    \/ \E c \in Callers : GocLookup(c)
    \/ \E c \in Callers : GocCreate(c)
    \/ \E c \in Callers : GocReturn(c)
    \/ \E c \in Callers : GocJoin(c)
    \/ \E c \in Callers : GocLeave(c)
    \/ RegCleanup
    \/ TickHour

SpecJoin == InitJoin /\ [][NextJoin]_vars

\* --------------------------------------------------------------- SpecPing
\* SpecCap's room, one place short of full, and two connections just
\* upgraded: one is admitted, the other is rejected with Room full. Each
\* has its ping goroutine and its ticker.
PingConns == CapConns \ CapResidentSet

InitPing == InitCap

NextPing ==
    \/ \E p \in PingConns : HandleWSAdmit(p)
    \/ \E p \in PingConns : HandleWSRoomFull(p)
    \/ \E p \in PingConns : SendRoomState(p)
    \/ \E p \in PingConns : SetupWebRTC(p)
    \/ \E p \in PingConns : SetupWebRTCFails(p)
    \/ \E p \in PingConns : AddExistingTracksSnapshot(p)
    \/ \E p \in PingConns : AddExistingTracksReturn(p)
    \/ \E p \in PingConns : ReadLoopBreak(p)
    \/ \E p \in PingConns : TeardownSignalDone(p)
    \/ \E p \in PingConns : TeardownUnsubscribe(p)
    \/ \E p \in PingConns : TeardownStopForwarder(p)
    \/ \E p \in PingConns : TeardownRemovePeer(p)
    \/ \E p \in PingConns : TeardownClose(p)
    \/ \E p \in PingConns : BroadcastLeave(p)
    \/ \E p \in PingConns : TickerFires(p)
    \/ \E p \in PingConns : PingTakesTick(p)
    \/ \E p \in PingConns : PingSeesDone(p)

\* the handler's own steps (not the client's closing of the channel)
PingHandlerStep(p) ==
    \/ HandleWSAdmit(p)
    \/ HandleWSRoomFull(p)
    \/ SendRoomState(p)
    \/ SetupWebRTC(p)
    \/ AddExistingTracksSnapshot(p)
    \/ AddExistingTracksReturn(p)
    \/ TeardownSignalDone(p)
    \/ TeardownUnsubscribe(p)
    \/ TeardownStopForwarder(p)
    \/ TeardownRemovePeer(p)
    \/ TeardownClose(p)
    \/ BroadcastLeave(p)

\* every goroutine that can run does run, and a ticker that is not stopped
\* ticks
FairPing ==
    \A p \in PingConns :
        /\ WF_vars(PingHandlerStep(p))
        /\ WF_vars(TickerFires(p))
        /\ WF_vars(PingTakesTick(p))
        /\ WF_vars(PingSeesDone(p))

SpecPing == InitPing /\ [][NextPing]_vars /\ FairPing

\* --------------------------------------------------------------- SpecGone
\* One publisher: Leaver joins the room in which Stayer sits in its read
\* loop, publishes tracks and leaves.  Every goroutine that can take a step
\* takes one, and a forwarder's loop ends once it is stopped or its sender's
\* PeerConnection is closed (the read of the track fails).
\* the connection that joins, publishes and leaves
Leaver == TrackConns - 1

\* the forwarder's read returns an error, or its done signal is closed
UpstreamEnded(f) ==
    \/ fwd[f].stopped
    \/ fwd[f].sender \in Conns /\ peerPC[fwd[f].sender] = "closed"

TeardownStep(p) ==
    \/ TeardownSignalDone(p)
    \/ TeardownUnsubscribe(p)
    \/ TeardownStopForwarder(p)
    \/ TeardownRemovePeer(p)
    \/ TeardownClose(p)
    \/ BroadcastLeave(p)

BroadcastTrackAny(f) ==
    \/ BroadcastTrackInstall(f)
    \/ BroadcastTrackStopOld(f)
    \/ BroadcastTrackSnapshot(f)
    \/ \E r \in Conns : BroadcastTrackCall(f, r)
    \/ BroadcastTrackStep(f)
    \/ BroadcastTrackStart(f)

GoneConns == 1..TrackConns
\* the connection that is in the room from the start
Stayer == TrackConns

InitGone ==
    /\ pc = [c \in GoneConns |-> IF c = Stayer THEN "loop" ELSE "start"]
    /\ roomPeers = {Stayer}
    /\ frames = [c \in GoneConns |->
                   IF c = Stayer THEN <<RoomStateFrame(c, {c})>> ELSE <<>>]
    /\ connOpen = [c \in GoneConns |-> TRUE]
    /\ clientGone = [c \in GoneConns |-> FALSE]
    /\ rsPeers = [c \in GoneConns |-> IF c = Stayer THEN {c} ELSE {}]
    /\ joinTargets = [c \in GoneConns |-> {}]
    /\ leaveTargets = [c \in GoneConns |-> {}]
    /\ peerPC = [c \in GoneConns |-> IF c = Stayer THEN "open" ELSE "nil"]
    /\ peerDone = [c \in GoneConns |-> FALSE]
    /\ TrackInit(GoneConns)
    /\ NegInit(GoneConns)
    /\ MgrInit(GoneConns)
    /\ FanInit(GoneConns)
    /\ ExtInit(GoneConns)

NextGone ==
    \/ HandleWSAdmit(Leaver)
    \/ SendRoomState(Leaver)
    \/ SetupWebRTC(Leaver)
    \/ AddExistingTracksSnapshot(Leaver)
    \/ AddExistingTracksReturn(Leaver)
    \/ ReadLoopBreak(Leaver)
    \/ TeardownSignalDone(Leaver)
    \/ TeardownUnsubscribe(Leaver)
    \/ TeardownStopForwarder(Leaver)
    \/ TeardownRemovePeer(Leaver)
    \/ TeardownClose(Leaver)
    \/ BroadcastLeave(Leaver)
    \/ \E f \in FwdIds : OnTrack(Leaver, f)
    \/ \E f \in FwdIds : BroadcastTrackInstall(f)
    \/ \E f \in FwdIds : BroadcastTrackStopOld(f)
    \/ \E f \in FwdIds : BroadcastTrackSnapshot(f)
    \/ \E f \in FwdIds, r \in Conns : BroadcastTrackCall(f, r)
    \/ \E f \in FwdIds : BroadcastTrackStep(f)
    \/ \E f \in FwdIds : BroadcastTrackStart(f)
    \/ \E f \in FwdIds : ForwarderExit(f)

FairGone ==
    /\ WF_vars(TeardownStep(Leaver))
    /\ \A f \in FwdIds :
          /\ WF_vars(BroadcastTrackAny(f))
          /\ WF_vars(UpstreamEnded(f) /\ ForwarderExit(f))

SpecGone == InitGone /\ [][NextGone]_vars /\ FairGone

\* ================================================================= claims
\* the frames about peer p on the channel of r, in the order written
FramesAbout(r, p) ==
    SelectSeq(frames[r], LAMBDA m : m.about = p /\ m.type \in {"peer_join", "peer_leave"})

\* C1 (SpecCap): room.Peers never holds more than maxRoomPeers peers; a
\* connection that finds the room full at the capacity check is never in
\* room.Peers, leaves room.Peers as it was, and ends with the "Room full"
\* error frame as its only frame and its channel closed.
C1_CapacityInv ==
    /\ Cardinality(roomPeers) <= maxRoomPeers
    /\ \A p \in Conns :
         /\ pc[p] \in {"full", "rejected"} => p \notin roomPeers
         /\ pc[p] = "rejected" => frames[p] = <<RoomFullFrame>> /\ ~connOpen[p]

C1_RejectStep ==
    \A p \in Conns :
        /\ (pc[p] = "start" /\ pc'[p] = "full") =>
               Cardinality(roomPeers) >= maxRoomPeers /\ roomPeers' = roomPeers
        /\ (pc[p] = "full" /\ pc'[p] # "full") =>
               pc'[p] = "rejected" /\ roomPeers' = roomPeers
        /\ (pc[p] = "start" /\ Cardinality(roomPeers) >= maxRoomPeers
              /\ pc'[p] # "start") => pc'[p] = "full"

C1_Capacity == [](C1_CapacityInv) /\ [][C1_RejectStep]_vars

\* C1 witness: a connection was rejected and the room holds maxRoomPeers peers
C1_Witness ==
    \E p \in Conns : pc[p] = "rejected" /\ Cardinality(roomPeers) = maxRoomPeers

\* C3 (SpecSig), as claimed: the first frame written to an admitted peer is
\* its room_state.
C3_RoomStateFirst ==
    \A p \in Conns :
        (pc[p] \notin {"start", "full", "rejected"} /\ frames[p] # <<>>)
            => frames[p][1].type = "room_state"

\* C4 (SpecSig): on every channel the frames about one peer id are nothing,
\* a peer_join, a peer_leave, or a peer_join followed by a peer_leave.
C4_JoinLeaveOrder ==
    \A r, p \in Conns :
        FramesAbout(r, p) \in {<<>>, <<PeerJoinFrame(p)>>, <<PeerLeaveFrame(p)>>,
                               <<PeerJoinFrame(p), PeerLeaveFrame(p)>>}

\* C4 witness: a peer was sent the peer_join and then the peer_leave of another
C4_Witness ==
    \E r, p \in Conns :
        r # p /\ FramesAbout(r, p) = <<PeerJoinFrame(p), PeerLeaveFrame(p)>>

\* no broadcastTrack call is running
NoBroadcastTrackRunning == \A f \in FwdIds : bt[f].pc \in {"none", "done"}

\* C2 (SpecTrack), as claimed: once the teardown of P is over and no
\* broadcastTrack call is running any more (nothing is left that would remove
\* P), P is not in room.Peers and not in the subscriber set of any forwarder
\* of the room.
C2_AbsentAfterTeardown ==
    \A p \in Conns :
        (Returned(p) /\ NoBroadcastTrackRunning) =>
            /\ p \notin roomPeers
            /\ \A f \in Installed : p \notin fwd[f].subs

\* C5 (SpecTrack): room.Forwarders holds at most one forwarder per sender id,
\* and a forwarder that was installed and is no longer in room.Forwarders is
\* stopped, or the broadcastTrack call that replaced it is about to stop it.
C5_OneForwarderPerSender ==
    /\ \A f, g \in Installed : fwd[f].sender = fwd[g].sender => f = g
    /\ \A s \in Conns : roomForwarders[s] # 0 => fwd[roomForwarders[s]].sender = s
    /\ \A f \in FwdIds :
         (bt[f].pc \notin {"none", "install"} /\ f \notin Installed) =>
             \/ fwd[f].stopped
             \/ \E g \in FwdIds : bt[g].pc = "stop_old" /\ bt[g].old = f

\* C5 witness: a forwarder took the place of another one, which is stopped
C5_Witness ==
    \E f, g \in FwdIds :
        /\ g \in Installed
        /\ bt[g].old = f
        /\ bt[g].pc \in {"snapshot", "subscribe", "done"}
        /\ fwd[f].stopped
        /\ fwd[f].state # "ended"

\* C6 (SpecTrack): PC.AddTrack succeeded at most once for every receiver and
\* sender.
C6_OutboundTrackOnce ==
    \A r, s \in Conns : trackAdds[r][s] <= 1

\* C6 witness: a second subscribeToForwarder call for a pair that has its
\* track reuses the stored track
C6_Witness ==
    \E f \in FwdIds :
        /\ bt[f].cur # 0
        /\ bt[f].step = "sub_existing"
        /\ trackAdds[bt[f].cur][fwd[f].sender] = 1

\* C7 (SpecTrack): when the join of R and the broadcastTrack call of S's
\* installed forwarder have both run to their end and R and S are both still
\* connected (in their read loops), R is in the subscriber set of that
\* forwarder.
C7_NoLostSubscription ==
    \A r \in Conns : \A f \in Installed :
        (/\ r # fwd[f].sender
         /\ pc[r] = "loop"
         /\ pc[fwd[f].sender] = "loop"
         /\ bt[f].pc = "done") => r \in fwd[f].subs

\* C7 witness: R is subscribed although the broadcastTrack call did not have
\* R in its snapshot or found it without a PeerConnection: the track was added
\* by R's own addExistingTracks
C7_Witness ==
    \E r \in Conns : \E f \in Installed :
        /\ r # fwd[f].sender
        /\ pc[r] = "addex_sub"
        /\ hsub[r].cur = 0
        /\ bt[f].pc = "done"
        /\ r \in fwd[f].subs

\* the runNegotiation goroutines of p that have not returned
Workers(p) == {i \in Slots : wk[p][i].pc # "none"}

\* C8 (SpecNeg): a peer never has two runNegotiation goroutines at once, a
\* goroutine exists only while NegotiationInProgress is set, and so
\* CreateOffer is never running twice at the same time on one peer.
C8_OneWorker ==
    \A p \in Conns :
        /\ Cardinality(Workers(p)) <= 1
        /\ Workers(p) # {} => neg[p].inProgress
        /\ Cardinality({i \in Slots : wk[p][i].pc = "creating"}) <= 1

\* a request found a worker in progress, no second one was started, and the
\* one worker is inside CreateOffer with a further request pending
C8_Witness ==
    \E p \in Conns, i \in Slots :
        /\ wk[p][i].pc = "creating"
        /\ neg[p].pending
        /\ neg[p].inProgress
        /\ Workers(p) = {i}

\* C9 (SpecNeg): while the peer is not done, its connection is open and the
\* read loop is between two frames, a pending negotiation always has a worker
\* that will read the flag again: a worker that has not yet decided to
\* return.
C9_PendingIsPickedUp ==
    \A p \in Conns :
        (/\ neg[p].pending
         /\ ~peerDone[p]
         /\ peerPC[p] = "open"
         /\ hmsg[p].step = "idle")
        => \E i \in Slots : wk[p][i].pc \notin {"none", "exit"}

\* the accepted ICE restart requests of p, as pairs of positions in iceLog
LogPairs(p) == {ij \in (DOMAIN iceLog[p]) \X (DOMAIN iceLog[p]) : ij[1] < ij[2]}

\* C10 (SpecIce): any two accepted ICE restart requests on one peer are at
\* least iceRestartMin seconds apart, and LastIceRestart is the time of the
\* last accepted one.
C10_IceRestartSpacing ==
    \A p \in Conns :
        /\ \A ij \in LogPairs(p) :
              iceLog[p][ij[2]] - iceLog[p][ij[1]] >= iceRestartMin
        /\ iceLog[p] # <<>> => neg[p].lastIceRestart = iceLog[p][Len(iceLog[p])]

\* a second ICE restart request was accepted, exactly iceRestartMin after
\* the first
C10_Witness ==
    \E p \in Conns :
        /\ Len(iceLog[p]) >= 2
        /\ iceLog[p][2] - iceLog[p][1] = iceRestartMin

\* C11 (SpecReap), as claimed: at every delete(rm.Rooms, uuid) the room holds
\* no peer and has been empty for more than 2 hours.
C11_ReapedOnlyWhenIdle ==
    \A i \in DOMAIN reapLog :
        /\ reapLog[i].peers = {}
        /\ reapLog[i].idle > RoomIdle

\* C12 (SpecBan), as claimed: no peer whose client ip is banned is in
\* room.Peers with its channel open.
C12_NoBannedPeerOpen ==
    \A p \in Conns :
        (p \in roomPeers /\ connOpen[p]) => connIP[p] \notin bannedIPs

\* a request from a banned ip got 403: no connection, no peer, no frame
C13_ForbiddenInv ==
    \A p \in Conns :
        pc[p] = "forbidden" =>
            /\ connIP[p] \in bannedIPs
            /\ ~connOpen[p]
            /\ p \notin roomPeers
            /\ frames[p] = <<>>

\* a request whose ip is banned goes nowhere but to 403; a banned ip stays
\* banned; a ban changes nothing of any connection
C13_BanStep ==
    /\ \A p \in Conns :
          (pc[p] = "request" /\ connIP[p] \in bannedIPs) => pc'[p] \in {"request", "forbidden"}
    /\ bannedIPs \subseteq bannedIPs'
    /\ bannedIPs' # bannedIPs => UNCHANGED <<sigVars, trackVars>>

\* C13 (SpecBan): once ban(ip) has returned, every request from ip that is
\* checked afterwards is answered 403 before the upgrade and creates no peer,
\* whether or not the ban file could be written; the ban itself leaves every
\* connection as it was, and other addresses are still admitted.
C13_BanRejects == [](C13_ForbiddenInv) /\ [][C13_BanStep]_vars

\* a request was answered 403 for an ip whose ban never reached the file,
\* while a peer from another ip, admitted after that ban, is in the room
\* with its channel open
C13_Witness ==
    \E p, q \in Conns :
        /\ pc[p] = "forbidden"
        /\ connIP[p] \notin banFile
        /\ connIP[q] # connIP[p]
        /\ q \in roomPeers
        /\ connOpen[q]

\* C14 (SpecBan), as claimed: from the upgrade to the end of the teardown a
\* peer is in room.Peers if and only if its signaling channel is open.
C14_ListedIffOpen ==
    \A p \in Conns :
        (pc[p] \notin {"request", "forbidden"} /\ ~Returned(p)) =>
            (p \in roomPeers <=> connOpen[p])

\* C17: the subscriber set of a forwarder never contains the id of the peer
\* whose track it forwards.
C17_NoSelfSubscription ==
    \A f \in FwdIds : fwd[f].sender # 0 => fwd[f].sender \notin fwd[f].subs

\* a forwarder of a peer still in the room has a subscriber, after the handler
\* that broadcasts it and a subscription of its sender's handler have finished
C17_Witness ==
    \E f \in Installed :
        /\ fwd[f].subs # {}
        /\ fwd[f].sender \in roomPeers
        /\ bt[f].pc = "done"
        /\ \E g \in Installed : g # f /\ fwd[f].sender \in fwd[g].subs

C16_FailedWrite(f, r, res) ==
    /\ res = "closed" => r \notin fwd'[f].subs
    /\ res # "closed" => (r \in fwd'[f].subs <=> r \in fwd[f].subs)
    /\ \A q \in Conns \ {r} : q \in fwd'[f].subs <=> q \in fwd[f].subs
    /\ fan'[f].todo = fan[f].todo \ {r}

Increasing(q) == \A i, j \in DOMAIN q : i < j => q[i] < q[j]

\* C20: what a subscriber is sent from one sender's forwarder is a
\* subsequence of the packets read upstream, in arrival order: nothing out of
\* order, nothing twice, also when subscribers come and go during fan-out.
C20_ArrivalOrder ==
    \A f \in FwdIds, r \in Conns :
        /\ Increasing(delivered[f][r])
        /\ \A i \in DOMAIN delivered[f][r] : delivered[f][r][i] \in 1..fan[f].read

\* peer 2 got packet 1 and was unsubscribed, peer 3 was subscribed during the
\* fan-out and got packet 2
C20_Witness ==
    \E f \in FwdIds :
        /\ delivered[f][2] = <<1>> /\ 2 \notin fwd[f].subs
        /\ delivered[f][3] = <<2>> /\ 3 \in fwd[f].subs

\* C18 (SpecNeg): the handling of a client offer that collides with a server
\* offer in progress ends only after the rollback, the remote offer and the
\* answer, by requesting a negotiation: at its last step the pending flag is
\* set and a negotiation worker is in progress.
C18_CollisionAnswered ==
    [][\A p \in Conns :
         (hmsg[p].collision /\ hmsg[p].step # "idle" /\ hmsg'[p].step = "idle")
         => /\ hmsg[p].step = "request"
            /\ neg'[p].pending
            /\ neg'[p].inProgress]_vars

\* the candidates 1..n in the order of their arrival
Arrived(n) == [i \in 1..n |-> i]

\* C19 (SpecCand): candidates that arrive before there is a remote
\* description are buffered; at the next successful setRemoteDescription they
\* are added, each once and in the order of arrival, and the buffer is empty
\* afterwards.  So at any time the candidates added followed by those still
\* buffered are the candidates received, in order; nothing is added while
\* there is no remote description and nothing is buffered once there is one.
C19_BufferedThenAddedInOrder ==
    \A p \in Conns :
        /\ cand[p].added \o cand[p].buf = Arrived(cand[p].recv)
        /\ ~sdp[p].remote => cand[p].added = <<>>
        /\ sdp[p].remote => cand[p].buf = <<>>

\* two candidates were buffered and flushed by a setRemoteDescription, a
\* third came later and was added at once
C19_Witness ==
    \E p \in Conns :
        /\ cand[p].recv = 3
        /\ cand[p].added = <<1, 2, 3>>
        /\ sdp[p].remote
        /\ \E i \in DOMAIN frames[p] : frames[p][i].type = "answer"

\* a read, a write or a ping of p's channel has failed
TransportError(p) == wsErr[p] \/ clientGone[p] \/ ~connOpen[p]

\* q was sent a room_state or a peer_join frame that lists p
KnowsOf(q, p) ==
    \E i \in DOMAIN frames[q] :
        \/ frames[q][i] = PeerJoinFrame(p)
        \/ frames[q][i].type = "room_state" /\ p \in frames[q][i].peers

\* p's handler has returned from its teardown: p is not in the room, has no
\* forwarder in room.Forwarders, and peer_leave went to every other peer
\* that was told of p and whose channel takes writes
TornDown(p) ==
    /\ pc[p] = "pl_write"
    /\ peerDone[p]
    /\ p \notin roomPeers
    /\ roomForwarders[p] = 0
    /\ \A q \in Conns \ {p} :
         (KnowsOf(q, p) /\ connOpen[q] /\ ~wsErr[q])
         => \E i \in DOMAIN frames[q] : frames[q][i] = PeerLeaveFrame(p)

NoWorkerLeft(p) == \A i \in Slots : wk[p][i].pc = "none"

\* C23 (SpecDone): once peer.Done is closed, the ping goroutine and the
\* negotiation workers of the peer end, and a worker that has taken the
\* Done case of its select does nothing more than return: it creates and
\* sends no offer.
C23_DoneStopsGoroutines ==
    /\ \A p \in NegPeers : peerDone[p] ~> (ping[p] = "ended" /\ NoWorkerLeft(p))
    /\ [][\A p \in Conns, i \in Slots :
            (wk[p][i].pc = "top" /\ peerDone[p] /\ wk'[p][i] # wk[p][i])
            => /\ wk'[p][i].pc = "exit"
               /\ frames'[p] = frames[p] /\ sdp'[p] = sdp[p]]_vars

\* Done was closed by the teardown while a negotiation was pending on an
\* open PeerConnection, and the worker that saw it is about to return
C23_Witness ==
    \E p \in Conns, i \in Slots :
        /\ peerDone[p] /\ pc[p] = "td_unsub" /\ ping[p] = "ended"
        /\ wk[p][i].pc = "exit"
        /\ neg[p].pending /\ peerPC[p] = "open"
        /\ sdp[p].sig = "stable" /\ sdp[p].remote

\* C22 (SpecWrite): at most one goroutine at a time is writing a frame to a
\* peer's websocket, and whoever is between Lock and Unlock of a write,
\* whether handler, broadcaster, negotiation worker, ICE candidate callback
\* or ping goroutine, is the holder of that peer's WsMutex.
C22_OneWriter ==
    \A p \in Conns :
        /\ \A t, u \in Writers :
               (wr[p][t] = "writing" /\ wr[p][u] = "writing") => t = u
        /\ \A t \in Writers :
               wr[p][t] \in {"held", "writing", "wrote"} => wsMutex[p] = t

\* the ping goroutine is in the middle of its write to peer 1 while the four
\* other writers are blocked in Lock
C22_Witness ==
    /\ wr[1]["ping"] = "writing"
    /\ \A t \in Writers \ {"ping"} : wr[1][t] = "lock"

\* C24 (SpecAdmin): an /admin request whose key is empty or is not the admin
\* key gets 401 and changes nothing but the response, whatever its action:
\* the ban set, the ban file, the rooms and the connections stay as they were.
C24_UnauthorizedChangesNothing ==
    [][(admin' # admin /\ (admin'.key = "" \/ admin'.key # AdminKey))
         => /\ admin'.status = 401
            /\ UNCHANGED <<sigVars, trackVars, negVars, mgrVars, fanVars,
                           ping, wsErr, wrVars>>]_vars

\* a ban request for ip1 with a wrong key was answered 401 while a client
\* from ip1 is connected, and nobody is banned
C24_Witness ==
    /\ admin.key = "wrong" /\ admin.action = "ban" /\ admin.ip = "ip1"
    /\ admin.status = 401
    /\ bannedIPs = {} /\ banFile = {}
    /\ \E p \in Conns : connIP[p] = "ip1" /\ pc[p] = "loop"

\* C25 (SpecAdmin), as claimed: only a POST request adds an ip to the ban
\* set.
C25_BanIsPostOnly ==
    [][bannedIPs' # bannedIPs => admin'.method = "POST"]_vars

\* the callers that have their room: the result of the call is fixed
HasRoom(c) == call[c].pc \in {"return", "done"}

C28_IgnoredFrame ==
    [][\A p \in Conns :
          (rx'[p] # rx[p] /\ ~(rx'[p].last.object /\ rx'[p].last.hasType
                               /\ rx'[p].last.type \in {"offer", "answer", "candidate"}))
          => /\ UNCHANGED <<neg, wk, cand, sdp, hmsg, roomPeers, frames, sigVars, trackVars>>
             /\ pc'[p] = "loop" /\ hmsg'[p].step = "idle"]_vars

\* after two ignored frames the handler has taken the client's offer, the
\* only offer or answer it got, and answered it
C28_Witness ==
    \E p \in Conns :
        /\ rx[p].dropped = MaxDropped /\ rx[p].last = TypedFrame("offer")
        /\ used.msg = 1
        /\ \E i \in DOMAIN frames[p] : frames[p][i].type = "answer"

\* the request of p has no room id or no usable name: the room parameter is
\* empty or blank, or the name is empty, blank or longer than 12 runes once
\* the white space around it is removed
BadInput(p) ==
    \/ req[p].room.runes = 0
    \/ req[p].name.runes = 0
    \/ req[p].name.runes > 12

\* C29 (SpecReq): a request is answered 400 exactly if its room id or its
\* name is bad, and a request that gets 400 or, for a banned ip, 403 is
\* never upgraded: the step that rejects it changes nothing but the
\* request's own fate (no room is made, room.Peers, the ban set and every
\* peer's frames stay as they were), and afterwards the connection is not
\* open, not in room.Peers and has no ping goroutine.
C29_RejectedAtAdmission ==
    /\ [](\A p \in Conns :
            pc[p] \in {"badrequest", "forbidden"}
            => ~connOpen[p] /\ p \notin roomPeers /\ frames[p] = <<>> /\ ping[p] = "none")
    /\ [][\A p \in Conns :
            /\ (pc[p] = "arrived" /\ pc'[p] # "arrived")
               => /\ pc'[p] \in {"badrequest", "request"}
                  /\ pc'[p] = "badrequest" <=> BadInput(p)
            /\ (pc[p] = "request" /\ pc'[p] # "request")
               => (pc'[p] = "forbidden" <=> connIP[p] \in bannedIPs)
            /\ (pc'[p] \in {"badrequest", "forbidden"} /\ pc'[p] # pc[p])
               => /\ \A q \in Conns \ {p} : pc'[q] = pc[q]
                  /\ UNCHANGED <<roomPeers, frames, connOpen, clientGone, rsPeers,
                                 joinTargets, leaveTargets, peerPC, peerDone,
                                 trackVars, negVars, mgrVars, fanVars, extVars>>]_vars

\* connection 2 asked with a name of 13 runes and got 400 while connection 1
\* sits in the room, which has heard of nobody else
C29_Witness ==
    /\ pc[2] = "badrequest" /\ req[2].name.runes = 13 /\ req[2].room.runes = 1
    /\ pc[1] = "loop" /\ roomPeers = {1} /\ rmRooms
    /\ \A i \in DOMAIN frames[1] : frames[1][i].type = "room_state"

\* the text spells an address, white space aside
Spells(t) == t.kind = "ip"

\* the remote address is a loopback or a private address
FromProxy(r) == Spells(r.remote.host) /\ r.remote.host.addr \in {"127.0.0.1", "10.0.0.1"}

SecurityHeaderNames ==
    {"X-Content-Type-Options", "X-Frame-Options", "Referrer-Policy",
     "Permissions-Policy", "Content-Security-Policy"}

\* C31 (SpecHttp), as claimed: every response to a request for a path other
\* than /ws carries the five security headers.
C31_SecurityHeaders ==
    resp # NoResp => SecurityHeaderNames \subseteq {h[1] : h \in resp.headers}

\* C32 (SpecNeg), as claimed: an offer the negotiation worker creates while
\* iceRestartPending is true is created with the ICE-restart option, also when
\* the restart request is accepted after the worker has read the flags.
C32_RestartOfferCarriesOption ==
    \A p \in Conns : \A i \in Slots :
        (wk[p][i].pc \in {"creating", "after_ok"} /\ neg[p].iceRestartPending)
            => wk[p][i].ice

\* C33 (SpecLock): no reachable state is a deadlock of the tasks that take
\* rm.Lock, room.Lock, room.ForwardersMu, the subscriber lock and WsMutex: as
\* long as a task is unfinished some task has a step to take. In particular
\* the teardown's Stop() under the forwarders write lock returns while onStop
\* waits for that lock.
C33_NoDeadlock ==
    /\ (\E t \in TaskNames : ~Finished(t)) => \E t \in TaskNames : CanStep(t)
    /\ \A t \in TaskNames : At(t, "return") => CanStep(t)

\* the teardown has called Stop() and still holds the forwarders lock, and
\* the forwarder's onStop is waiting for it
C33_Witness ==
    /\ lk["fwds"].w = "teardown"
    /\ fstop
    /\ "forwarder" \in lk["fwds"].q

\* C34 (SpecLock), as claimed: the registry lock is not held while an I/O
\* operation is in progress: BanIP, GetOrCreateRoom and the cleanup do their
\* I/O after releasing rm.Lock.
C34_NoIOUnderRegistryLock ==
    \A t \in TaskNames : At(t, "io") => lk["rm"].w # t /\ t \notin lk["rm"].r

\* C35 (SpecIce): the goroutine started by a change to disconnected calls
\* requestICERestart only after its timer of iceRestartDelay woke it, which
\* it does only while peer.Done is not closed, and only if the ICE state it
\* then reads is disconnected; a change to failed calls requestICERestart
\* in the same step. requestICERestart takes the request unless it is within
\* iceRestartMin of the last one, and nothing else takes one.
C35_DelayedRestart ==
    [][\A p \in Conns :
          /\ \A t \in ice[p].timers :
                t \in ice'[p].woken => ~peerDone[p] /\ now >= t
          /\ (\E t \in ice[p].woken : t \notin ice'[p].woken) =>
                IF ice[p].state = "disconnected" /\ peerPC[p] = "open"
                  THEN /\ ice'[p].delayed
                       /\ IceRestartTooSoon(p) \/ iceLog'[p] = Append(iceLog[p], now)
                  ELSE /\ ~ice'[p].delayed
                       /\ iceLog'[p] = iceLog[p]
          /\ (ice'[p].state = "failed" /\ ice[p].state # "failed") =>
                IceRestartTooSoon(p) \/ iceLog'[p] = Append(iceLog[p], now)
          /\ (iceLog'[p] # iceLog[p]) =>
                \/ ice'[p].state = "failed" /\ ice[p].state # "failed"
                \/ \E t \in ice[p].woken : t \notin ice'[p].woken
                \/ ice'[p] = [ice[p] EXCEPT !.delayed = FALSE]]_vars

\* the delayed check has just requested a restart, and the request was taken
C35_Witness ==
    \E p \in Conns :
        /\ ice[p].delayed
        /\ ice[p].state = "disconnected"
        /\ iceLog[p] # <<>>
        /\ iceLog[p][Len(iceLog[p])] = now

\* sendRoomState has returned and the handler has not left its read loop
Joined(p) == pc[p] \in {"setup", "addex", "loop"}

\* b was told about a: a is in b's room_state, or b was sent a's peer_join
ToldAbout(b, a) ==
    \/ \E i \in DOMAIN frames[b] :
          frames[b][i].type = "room_state" /\ a \in frames[b][i].peers
    \/ \E i \in DOMAIN frames[b] : frames[b][i] = PeerJoinFrame(a)

\* C36 (SpecSig): of two peers that are in room.Peers together, both past
\* sendRoomState and still connected, each was told about the other, by its
\* room_state or by a peer_join, whichever way their joins interleaved.
C36_EachToldAboutOther ==
    \A a, b \in Conns :
        (a # b /\ Joined(a) /\ Joined(b)) => ToldAbout(b, a)

\* b's room_state was taken before a registered, and b got a's peer_join
C36_Witness ==
    \E a, b \in Conns :
        /\ a # b /\ Joined(a) /\ Joined(b)
        /\ a \notin rsPeers[b]
        /\ \E i \in DOMAIN frames[b] : frames[b][i] = PeerJoinFrame(a)

\* b registered after a: a is in b's room_state and b got no peer_join of a
C36_WitnessRoomState ==
    \E a, b \in Conns :
        /\ a # b /\ Joined(a) /\ Joined(b)
        /\ a \in rsPeers[b]
        /\ \A i \in DOMAIN frames[b] : frames[b][i] # PeerJoinFrame(a)

\* C37 (SpecJoin), as claimed: two peers connected at the same time under the
\* same room id are in the same Room object, and every Room object that holds
\* a peer is the one registered in rm.Rooms under its id.
C37_OneRoomPerId ==
    /\ \A m, n \in members : call[m[1]].id = call[n[1]].id => m[2] = n[2]
    /\ \A m \in members : registry.rooms[call[m[1]].id] = m[2]

\* C38 (SpecPing), as claimed: once the handler of an upgraded connection
\* has returned, by the Room full rejection or through its teardown, the
\* connection's ping goroutine ends.
C38_PingEnds ==
    \A p \in PingConns : TickerStopped(p) ~> (ping[p] = "ended")

\* the part that holds: after a teardown the ping goroutine ends
C38_PingEndsAfterTeardown ==
    \A p \in PingConns : Returned(p) ~> (ping[p] = "ended")

\* C39 (SpecTrack): when the onStop of a forwarder runs, room.Forwarders
\* loses the entry of its sender if that entry is the stopping forwarder and
\* is left as it is otherwise: a forwarder that was replaced by a newer one
\* for the same sender does not remove the newer one.
C39_OnStopOfReplaced ==
    [][\A f \in FwdIds :
          fan'[f].onStopCalls > fan[f].onStopCalls =>
             /\ f \notin Installed => roomForwarders' = roomForwarders
             /\ \A s \in Conns :
                   roomForwarders'[s] # roomForwarders[s] =>
                       roomForwarders[s] = f /\ roomForwarders'[s] = 0]_vars

\* a forwarder that was replaced has ended and called onStop, and the newer
\* forwarder of the same sender is still in room.Forwarders
C39_Witness ==
    \E f, g \in FwdIds :
        /\ f # g
        /\ bt[g].old = f
        /\ fwd[f].state = "ended"
        /\ fan[f].onStopCalls = 1
        /\ roomForwarders[fwd[f].sender] = g

\* C40 (SpecGone): once the teardown of P is over, room.Forwarders comes to
\* hold no entry for sender P and holds none from then on, also when a
\* broadcastTrack call of P installs its forwarder during or after the
\* teardown.
C40_NoForwarderOfDeparted ==
    Returned(Leaver) ~> [](roomForwarders[Leaver] = 0)

\* the teardown of P is over and a forwarder of P, installed by a
\* broadcastTrack call that was still under way, is in room.Forwarders and
\* running
C40_Witness ==
    /\ Returned(Leaver)
    /\ roomForwarders[Leaver] # 0
    /\ fwd[roomForwarders[Leaver]].state = "running"
====
